---- MODULE Spec2Model ----
(***************************************************************************)
(* A model of llamakv: the value envelope's expiry, the two cache          *)
(* strategies (LRUCache, TTLCache), the in-memory backend and the KVStore  *)
(* orchestrator with its buffered transactions.                            *)
(*                                                                         *)
(* Time is an integer clock `now` (time.time()); a handler runs at one     *)
(* instant.  Python's None is NoTtl for a ttl, NoLimit for a byte budget   *)
(* and NoValue for a Value.  A dict is a sequence of [key, value] entries  *)
(* in insertion order.                                                     *)
(***************************************************************************)
EXTENDS Integers, Sequences, FiniteSets

VARIABLES
    now,          \* time.time()
    cfg,          \* constructor arguments of the cache and the store
    cache,        \* the cache strategy: entries, byte estimate, last cleanup
    backend,      \* MemoryBackend._store
    last_purge,   \* KVStore._last_purge
    tx,           \* the KVTransaction in progress
    accessOrder,  \* history: keys held by the cache, oldest last access first
    ref,          \* history: per key the Value of the latest set that no delete
                  \*          or clear call followed (the plain map of the calls)
    ttlUsed,      \* history: some set through the store carried a ttl
    lastOp,       \* history: the last call and what it returned
    txn,          \* the Transaction (transaction.py) in progress
    threads,      \* concurrent callers of the store: the call each is in and
                  \* how far it got
    update_queue, \* DistributedClient._update_queue
    nodes_down,   \* DistributedClient._stats["nodes_down"]
    worker,       \* the update thread: the update it fans out and its position
    peer,         \* how each node answers a request at present
    hist,         \* history: the requests sent and the updates enqueued
    cluster,      \* two nodes that list each other: per node its store, its
                  \* client's queue and down-set, and its worker
    lifecycle,    \* DistributedClient._running and the worker's place in its loop
    codec         \* the object under conversion: a Value, its dictionary and the
                  \* Value built back from it, or a Key and its string

\* the state of the parts a specification leaves alone
moreVars == <<cluster, lifecycle, codec>>

extVars == <<txn, threads, update_queue, nodes_down, worker, peer, hist, moreVars>>

vars == <<now, cfg, cache, backend, last_purge, tx, accessOrder, ref, ttlUsed, lastOp,
          txn, threads, update_queue, nodes_down, worker, peer, hist,
          cluster, lifecycle, codec>>

----------------------------------------------------------------------------
(* Bounds of the model *)

MaxTime == 2
MaxTtl == 2
MaxSizeBytes == 144
PurgeInterval == 2
MaxTxOps == 2
MaxCommands == 1
MaxQueueSize == 2
MaxRetryAttempts == 2
MaxUpdates == 3

Keys == {"k1", "k2", "k3"}
Payloads == {"a", "bbb"}
Default == "default"
Capacities == {1, 2}

NoTtl == -1
NoLimit == -1
Ttls == {NoTtl, 1, MaxTtl}
DefaultTtls == {0, MaxTtl}
\* a cleanup at every new instant, or none within the model's time
CleanupIntervals == {1, MaxTime + 1}

----------------------------------------------------------------------------
(* Value envelope: core/value.py *)

NoValue == [payload |-> "None", created_at |-> 0, ttl |-> NoTtl]

Value(p, t, ttl) == [payload |-> p, created_at |-> t, ttl |-> ttl]

\* float('inf'): larger than every expiry the model can build
Inf == MaxTime + MaxTtl + 1

expiry(v) == IF v.ttl = NoTtl THEN NoTtl ELSE v.created_at + v.ttl

\* a value that is expired from its expiry time on
is_expired_at_expiry(v) ==
    IF v.ttl = NoTtl THEN FALSE ELSE now >= v.created_at + v.ttl

is_expired(v) ==
    IF v.ttl = NoTtl THEN FALSE ELSE now > v.created_at + v.ttl

\* len(str(...)) of the strings the model uses
StrLen(s) == IF s = "bbb" THEN 3 ELSE IF s = "a" THEN 1 ELSE 2

----------------------------------------------------------------------------
(* dict / OrderedDict operations on a sequence of entries *)

Entry(k, v) == [key |-> k, value |-> v]

KeysOf(entries) == {entries[i].key : i \in DOMAIN entries}

Lookup(entries, k) ==
    entries[CHOOSE i \in DOMAIN entries : entries[i].key = k].value

Remove(entries, k) == SelectSeq(entries, LAMBDA e : e.key # k)

\* d[k] = v: an existing key keeps its place, a new one goes to the end
Assign(entries, k, v) ==
    IF k \in KeysOf(entries)
    THEN [i \in DOMAIN entries |->
            IF entries[i].key = k THEN Entry(k, v) ELSE entries[i]]
    ELSE Append(entries, Entry(k, v))

----------------------------------------------------------------------------
(* LRUCache: cache/lru.py *)

\* a get that leaves the recency order alone
LRUCache_get_no_move(c, k) ==
    IF k \notin KeysOf(c.entries)
    THEN [c |-> c, value |-> NoValue]
    ELSE LET v == Lookup(c.entries, k) IN
         IF cfg.ttl_check /\ is_expired(v)
         THEN [c |-> [c EXCEPT !.entries = Remove(c.entries, k)], value |-> NoValue]
         ELSE [c |-> c, value |-> v]

LRUCache_get(c, k) ==
    IF k \notin KeysOf(c.entries)
    THEN [c |-> c, value |-> NoValue]
    ELSE LET v == Lookup(c.entries, k) IN
         IF cfg.ttl_check /\ is_expired(v)
         THEN [c |-> [c EXCEPT !.entries = Remove(c.entries, k)], value |-> NoValue]
         ELSE [c |-> [c EXCEPT !.entries = Append(Remove(c.entries, k), Entry(k, v))],
               value |-> v]

\* a set that evicts only once the cache is over its capacity
LRUCache_set_late_eviction(c, k, v) ==
    IF k \in KeysOf(c.entries)
    THEN [c EXCEPT !.entries = Append(Remove(c.entries, k), Entry(k, v))]
    ELSE IF Len(c.entries) > cfg.capacity
    THEN [c EXCEPT !.entries = Append(Tail(c.entries), Entry(k, v))]
    ELSE [c EXCEPT !.entries = Append(c.entries, Entry(k, v))]

LRUCache_set(c, k, v) ==
    IF k \in KeysOf(c.entries)
    THEN [c EXCEPT !.entries = Append(Remove(c.entries, k), Entry(k, v))]
    ELSE IF Len(c.entries) >= cfg.capacity
    THEN [c EXCEPT !.entries = Append(Tail(c.entries), Entry(k, v))]
    ELSE [c EXCEPT !.entries = Append(c.entries, Entry(k, v))]

LRUCache_delete(c, k) ==
    IF k \in KeysOf(c.entries)
    THEN [c |-> [c EXCEPT !.entries = Remove(c.entries, k)], ok |-> TRUE]
    ELSE [c |-> c, ok |-> FALSE]

LRUCache_clear(c) == [c EXCEPT !.entries = <<>>]

----------------------------------------------------------------------------
(* TTLCache: cache/ttl.py *)

HasBudget == cfg.max_size_bytes # NoLimit

\* a cache that is never due for a sweep
TTLCache_should_cleanup_never(c) == FALSE

TTLCache_should_cleanup(c) == now - c.last_cleanup >= cfg.cleanup_interval

TTLCache_estimate_item_size(k, v) ==
    StrLen(k) * 2 + StrLen(v.payload) * 2 + 64

\* the key of items.sort(...): the expiry, None last
SortKey(e) == IF expiry(e.value) = NoTtl THEN Inf ELSE expiry(e.value)

\* list.sort is stable: an item goes behind the items whose key is not larger
RECURSIVE SortByExpiry(_)
SortByExpiry(items) ==
    IF items = <<>> THEN <<>>
    ELSE LET n == Len(items)
             e == items[n]
             rest == SortByExpiry(SubSeq(items, 1, n - 1))
             le == SelectSeq(rest, LAMBDA x : SortKey(x) <= SortKey(e))
             gt == SelectSeq(rest, LAMBDA x : SortKey(x) > SortKey(e))
         IN  le \o <<e>> \o gt

\* the loop of _enforce_size_limit over the sorted items
RECURSIVE EvictUntilFits(_, _)
EvictUntilFits(c, items) ==
    IF items = <<>> \/ c.estimated_size_bytes <= cfg.max_size_bytes
    THEN c
    ELSE LET e == Head(items) IN
         EvictUntilFits(
            [c EXCEPT !.entries = Remove(c.entries, e.key),
                      !.estimated_size_bytes =
                          @ - TTLCache_estimate_item_size(e.key, e.value)],
            Tail(items))

\* a size limit enforced on the items in the order they were inserted
TTLCache_enforce_size_limit_unsorted(c) ==
    IF ~HasBudget THEN c
    ELSE IF c.estimated_size_bytes <= cfg.max_size_bytes THEN c
    ELSE EvictUntilFits(c, c.entries)

TTLCache_enforce_size_limit(c) ==
    IF ~HasBudget THEN c
    ELSE IF c.estimated_size_bytes <= cfg.max_size_bytes THEN c
    ELSE EvictUntilFits(c, SortByExpiry(c.entries))

RECURSIVE SumSizes(_)
SumSizes(items) ==
    IF items = <<>> THEN 0
    ELSE TTLCache_estimate_item_size(Head(items).key, Head(items).value)
         + SumSizes(Tail(items))

\* a sweep that leaves the byte estimate as it was
TTLCache_cleanup_estimate_kept(c) ==
    [entries |-> SelectSeq(c.entries, LAMBDA e : ~is_expired(e.value)),
     estimated_size_bytes |-> c.estimated_size_bytes,
     last_cleanup |-> now]

TTLCache_cleanup(c) ==
    LET expired == SelectSeq(c.entries, LAMBDA e : is_expired(e.value))
        kept == SelectSeq(c.entries, LAMBDA e : ~is_expired(e.value))
    IN  [entries |-> kept,
         estimated_size_bytes |->
             IF HasBudget THEN c.estimated_size_bytes - SumSizes(expired)
             ELSE c.estimated_size_bytes,
         last_cleanup |-> now]

\* a get that returns what it holds without looking at its expiry
TTLCache_get_no_expiry_check(c, k) ==
    LET c1 == IF TTLCache_should_cleanup(c) THEN TTLCache_cleanup(c) ELSE c IN
    IF k \notin KeysOf(c1.entries)
    THEN [c |-> c1, value |-> NoValue]
    ELSE [c |-> c1, value |-> Lookup(c1.entries, k)]

TTLCache_get(c, k) ==
    LET c1 == IF TTLCache_should_cleanup(c) THEN TTLCache_cleanup(c) ELSE c IN
    IF k \notin KeysOf(c1.entries)
    THEN [c |-> c1, value |-> NoValue]
    ELSE LET v == Lookup(c1.entries, k) IN
         IF is_expired(v)
         THEN [c |-> [c1 EXCEPT
                        !.entries = Remove(c1.entries, k),
                        !.estimated_size_bytes =
                            IF HasBudget
                            THEN @ - TTLCache_estimate_item_size(k, v) ELSE @],
               value |-> NoValue]
         ELSE [c |-> c1, value |-> v]

\* the value with the cache's default ttl when it has none of its own
Stamp(v) ==
    IF v.ttl = NoTtl /\ cfg.default_ttl > 0
    THEN [v EXCEPT !.ttl = cfg.default_ttl]
    ELSE v

\* a set whose capacity eviction takes the oldest insertion
TTLCache_set_evict_first(c, k, value) ==
    LET v == Stamp(value)
        held == k \in KeysOf(c.entries)
        c1 == IF ~HasBudget THEN c
              ELSE [c EXCEPT !.estimated_size_bytes =
                      (IF held
                       THEN @ - TTLCache_estimate_item_size(k, Lookup(c.entries, k))
                       ELSE @)
                      + TTLCache_estimate_item_size(k, v)]
        c2 == IF Len(c1.entries) >= cfg.capacity /\ ~held
              THEN LET e == Head(c1.entries) IN
                   [c1 EXCEPT
                      !.entries = Remove(c1.entries, e.key),
                      !.estimated_size_bytes =
                          IF HasBudget
                          THEN @ - TTLCache_estimate_item_size(e.key, e.value)
                          ELSE @]
              ELSE c1
        c3 == [c2 EXCEPT !.entries = Assign(c2.entries, k, v)]
    IN  TTLCache_enforce_size_limit(c3)

\* TTLCache.set up to the insertion of the item: the default ttl, the byte
\* estimate, the capacity eviction and self._cache[key] = value
TTLCache_insert(c, k, value) ==
    LET v == Stamp(value)
        held == k \in KeysOf(c.entries)
        \* the byte estimate with the new item counted
        c1 == IF ~HasBudget THEN c
              ELSE [c EXCEPT !.estimated_size_bytes =
                      (IF held
                       THEN @ - TTLCache_estimate_item_size(k, Lookup(c.entries, k))
                       ELSE @)
                      + TTLCache_estimate_item_size(k, v)]
        \* the capacity eviction: the item that expires soonest
        c2 == IF Len(c1.entries) >= cfg.capacity /\ ~held
              THEN LET e == Head(SortByExpiry(c1.entries)) IN
                   [c1 EXCEPT
                      !.entries = Remove(c1.entries, e.key),
                      !.estimated_size_bytes =
                          IF HasBudget
                          THEN @ - TTLCache_estimate_item_size(e.key, e.value)
                          ELSE @]
              ELSE c1
    IN  [c2 EXCEPT !.entries = Assign(c2.entries, k, v)]

TTLCache_set(c, k, value) == TTLCache_enforce_size_limit(TTLCache_insert(c, k, value))

TTLCache_delete(c, k) ==
    IF k \in KeysOf(c.entries)
    THEN [c |-> [c EXCEPT
                   !.entries = Remove(c.entries, k),
                   !.estimated_size_bytes =
                       IF HasBudget
                       THEN @ - TTLCache_estimate_item_size(k, Lookup(c.entries, k))
                       ELSE @],
          ok |-> TRUE]
    ELSE [c |-> c, ok |-> FALSE]

TTLCache_clear(c) ==
    [c EXCEPT !.entries = <<>>,
              !.estimated_size_bytes = IF HasBudget THEN 0 ELSE @]

----------------------------------------------------------------------------
(* CacheStrategy: the interface the store calls, cache/strategy.py *)

Cache_get(c, k) ==
    IF cfg.kind = "LRU" THEN LRUCache_get(c, k) ELSE TTLCache_get(c, k)

Cache_set(c, k, v) ==
    IF cfg.kind = "LRU" THEN LRUCache_set(c, k, v) ELSE TTLCache_set(c, k, v)

Cache_delete(c, k) ==
    IF cfg.kind = "LRU" THEN LRUCache_delete(c, k) ELSE TTLCache_delete(c, k)

Cache_clear(c) ==
    IF cfg.kind = "LRU" THEN LRUCache_clear(c) ELSE TTLCache_clear(c)

EmptyCache == [entries |-> <<>>, estimated_size_bytes |-> 0, last_cleanup |-> 0]

----------------------------------------------------------------------------
(* The objects of the other parts, as they are before their first use *)

\* no Transaction (transaction.py) built yet; calls counts the times the
\* backend was handed its commands
NoTxn == [built |-> FALSE, commands |-> <<>>, active |-> FALSE, executed |-> FALSE,
          calls |-> 0]

\* the callers of the concurrent store
ThreadIds == {"t1", "t2"}

IdleThread == [pc |-> "idle", op |-> "none", payload |-> "", value |-> NoValue]

\* DistributedClient._nodes, in list order
Nodes == <<"P1", "P2">>

NodeSet == {Nodes[i] : i \in DOMAIN Nodes}

\* what a node answers: a status code, or no answer (a RequestException)
Responses == {"200", "404", "500", "exc"}

NoUpdate == [op |-> "none", id |-> 0]

IdleWorker == [busy |-> FALSE, update |-> NoUpdate, node |-> 1, attempt |-> 0,
               success |-> FALSE]

\* calls: the propagate_* calls made in async mode, which number the updates;
\* lastReq: per node the update of the last request the worker sent it;
\* finished: the updates whose fan-out ended; dropped: the updates refused by
\* a full queue; tried, skipped, got200: the nodes the worker sent the update
\* at hand to, the ones it passed over as down, and whether one answered 200
NoHist == [calls |-> 0, lastReq |-> [n \in NodeSet |-> 0], finished |-> {},
           dropped |-> {}, tried |-> {}, skipped |-> {}, got200 |-> FALSE]

NoCluster == [built |-> FALSE]

NoLifecycle == [built |-> FALSE]

NoCodec == [built |-> FALSE]

ExtIdle ==
    /\ txn = NoTxn
    /\ threads = [t \in ThreadIds |-> IdleThread]
    /\ update_queue = <<>>
    /\ nodes_down = {}
    /\ worker = IdleWorker
    /\ peer = [n \in NodeSet |-> "200"]
    /\ hist = NoHist
    /\ cluster = NoCluster
    /\ lifecycle = NoLifecycle
    /\ codec = NoCodec

----------------------------------------------------------------------------
(* The cache strategies on their own: any sequence of calls *)

NoTx == [open |-> FALSE, operations |-> <<>>, committed |-> FALSE, rolled_back |-> FALSE]

NoOp ==
    [op |-> "init", key |-> "k1", res |-> NoValue, ok |-> FALSE, removed |-> {},
     ret |-> "", inc |-> FALSE, expired |-> FALSE, count |-> 0, error |-> "none",
     node |-> "", contacted |-> {}, status |-> 0, skipped |-> FALSE,
     propagated |-> FALSE, auth |-> <<>>, source |-> "", ttl |-> NoTtl,
     operation |-> "", requests |-> <<>>, failed |-> 0]

EmptyBackend == [k \in Keys |-> NoValue]

EmptyRef == [k \in Keys |-> NoValue]

\* LRU caches with and without the ttl check; TTL caches with and without a
\* default ttl and a cleanup sweep; TTL caches with a byte budget, which two
\* entries can exceed
CacheConfigs ==
    { [kind |-> "LRU", capacity |-> n, ttl_check |-> b, default_ttl |-> 0,
       cleanup_interval |-> MaxTime + 1, max_size_bytes |-> NoLimit,
       auto_purge |-> FALSE, purge_interval |-> PurgeInterval]
        : n \in Capacities, b \in BOOLEAN }
    \cup
    { [kind |-> "TTL", capacity |-> n, ttl_check |-> TRUE, default_ttl |-> d,
       cleanup_interval |-> i, max_size_bytes |-> NoLimit,
       auto_purge |-> FALSE, purge_interval |-> PurgeInterval]
        : n \in Capacities, d \in DefaultTtls, i \in CleanupIntervals }
    \cup
    { [kind |-> "TTL", capacity |-> 2, ttl_check |-> TRUE, default_ttl |-> 0,
       cleanup_interval |-> i, max_size_bytes |-> MaxSizeBytes,
       auto_purge |-> FALSE, purge_interval |-> PurgeInterval]
        : i \in CleanupIntervals }

InitCache ==
    /\ now = 0
    /\ cfg \in CacheConfigs
    /\ cache = EmptyCache
    /\ backend = EmptyBackend
    /\ last_purge = 0
    /\ tx = NoTx
    /\ accessOrder = <<>>
    /\ ref = EmptyRef
    /\ ttlUsed = FALSE
    /\ lastOp = NoOp
    /\ ExtIdle

StoreUnchanged == UNCHANGED <<cfg, backend, last_purge, tx, ref, ttlUsed, extVars>>

\* the keys held after the call, by their last access: a get hit or a set of k
\* is the newest access
Accessed(order, heldAfter, k, touched) ==
    LET rest == SelectSeq(order, LAMBDA x : x \in heldAfter /\ ~(touched /\ x = k))
    IN  IF touched /\ k \in heldAfter THEN Append(rest, k) ELSE rest

Tick ==
    /\ now < MaxTime
    /\ now' = now + 1
    /\ lastOp' = [NoOp EXCEPT !.op = "tick"]
    /\ UNCHANGED <<cfg, cache, backend, last_purge, tx, accessOrder, ref, ttlUsed,
                 extVars>>

CacheGet(k) ==
    LET r == Cache_get(cache, k) IN
    /\ cache' = r.c
    /\ accessOrder' = IF cfg.kind = "LRU"
                      THEN Accessed(accessOrder, KeysOf(r.c.entries), k, r.value # NoValue)
                      ELSE <<>>
    /\ lastOp' = [NoOp EXCEPT !.op = "get", !.key = k, !.res = r.value,
                              !.ok = (r.value # NoValue),
                              !.removed = KeysOf(cache.entries) \ KeysOf(r.c.entries)]
    /\ UNCHANGED now
    /\ StoreUnchanged

CacheSet(k, v) ==
    LET c == Cache_set(cache, k, v) IN
    /\ cache' = c
    /\ accessOrder' = IF cfg.kind = "LRU"
                      THEN Accessed(accessOrder, KeysOf(c.entries), k, TRUE)
                      ELSE <<>>
    /\ lastOp' = [NoOp EXCEPT !.op = "set", !.key = k, !.res = v,
                              !.ok = (k \in KeysOf(cache.entries)),
                              !.removed = KeysOf(cache.entries) \ KeysOf(c.entries)]
    /\ UNCHANGED now
    /\ StoreUnchanged

CacheDelete(k) ==
    LET r == Cache_delete(cache, k) IN
    /\ cache' = r.c
    /\ accessOrder' = IF cfg.kind = "LRU"
                      THEN Accessed(accessOrder, KeysOf(r.c.entries), k, FALSE)
                      ELSE <<>>
    /\ lastOp' = [NoOp EXCEPT !.op = "delete", !.key = k, !.ok = r.ok,
                              !.removed = KeysOf(cache.entries) \ KeysOf(r.c.entries)]
    /\ UNCHANGED now
    /\ StoreUnchanged

CacheClear ==
    /\ cache' = Cache_clear(cache)
    /\ accessOrder' = <<>>
    /\ lastOp' = [NoOp EXCEPT !.op = "clear", !.removed = KeysOf(cache.entries)]
    /\ UNCHANGED now
    /\ StoreUnchanged

\* a Value built now; its payload matters to the cache only through its size
NewValues ==
    {Value(p, now, ttl) : p \in (IF HasBudget THEN Payloads ELSE {"a"}), ttl \in Ttls}

NextCache ==
    \/ Tick
    \/ \E k \in Keys : CacheGet(k)
    \/ \E k \in Keys, v \in NewValues : CacheSet(k, v)
    \/ \E k \in Keys : CacheDelete(k)
    \/ CacheClear

SpecCache == InitCache /\ [][NextCache]_vars

\* the TTL caches with a byte budget alone
InitBudget ==
    /\ InitCache
    /\ cfg.kind = "TTL"
    /\ HasBudget

\* Values of either size built now, without ttl or with the shortest
BudgetValues == {Value(p, now, ttl) : p \in Payloads, ttl \in {NoTtl, 1}}

NextBudget ==
    \/ Tick
    \/ \E k \in Keys : CacheGet(k)
    \/ \E k \in Keys, v \in BudgetValues : CacheSet(k, v)
    \/ \E k \in Keys : CacheDelete(k)
    \/ CacheClear

SpecBudget == InitBudget /\ [][NextBudget]_vars

----------------------------------------------------------------------------
(* MemoryBackend: persistence/memory.py.  The store registers its cache as  *)
(* the backend's set and delete callback, so a backend write reaches the    *)
(* cache too.  S is [backend, cache, last_purge].                           *)

MemoryBackend_set(S, k, v) ==
    [S EXCEPT !.backend = [@ EXCEPT ![k] = v],
              !.cache = Cache_set(@, k, v)]

MemoryBackend_get(b, k) == b[k]

MemoryBackend_delete(S, k) ==
    IF S.backend[k] # NoValue
    THEN [S |-> [S EXCEPT !.backend = [@ EXCEPT ![k] = NoValue],
                          !.cache = Cache_delete(@, k).c],
          ok |-> TRUE]
    ELSE [S |-> S, ok |-> FALSE]

MemoryBackend_keys(b) == {k \in DOMAIN b : b[k] # NoValue}

MemoryBackend_clear(S) == [S EXCEPT !.backend = [k \in DOMAIN @ |-> NoValue]]

----------------------------------------------------------------------------
(* KVStore: core/store.py *)

StoreDefaultTtl == NoTtl

KVStore_delete(S, k) ==
    LET r == MemoryBackend_delete(S, k) IN
    [S |-> [r.S EXCEPT !.cache = Cache_delete(@, k).c], ok |-> r.ok]

\* a purge that takes every value that carries a ttl for expired
RECURSIVE PurgeKeys_any_ttl(_, _)
PurgeKeys_any_ttl(S, keys) ==
    IF keys = {} THEN [S |-> S, count |-> 0]
    ELSE LET k == CHOOSE x \in keys : TRUE
             v == MemoryBackend_get(S.backend, k)
         IN  IF v # NoValue /\ v.ttl # NoTtl
             THEN LET r == PurgeKeys_any_ttl(KVStore_delete(S, k).S, keys \ {k}) IN
                  [S |-> r.S, count |-> r.count + 1]
             ELSE PurgeKeys_any_ttl(S, keys \ {k})

\* the loop of purge_expired over the keys the backend listed
RECURSIVE PurgeKeys(_, _)
PurgeKeys(S, keys) ==
    IF keys = {} THEN [S |-> S, count |-> 0]
    ELSE LET k == CHOOSE x \in keys : TRUE
             v == MemoryBackend_get(S.backend, k)
         IN  IF v # NoValue /\ is_expired(v)
             THEN LET r == PurgeKeys(KVStore_delete(S, k).S, keys \ {k}) IN
                  [S |-> r.S, count |-> r.count + 1]
             ELSE PurgeKeys(S, keys \ {k})

KVStore_purge_expired(S) ==
    LET r == PurgeKeys(S, MemoryBackend_keys(S.backend)) IN
    [S |-> [r.S EXCEPT !.last_purge = now], count |-> r.count]

KVStore_maybe_purge_expired(S) ==
    IF ~cfg.auto_purge THEN S
    ELSE IF now - S.last_purge >= cfg.purge_interval
    THEN [KVStore_purge_expired(S).S EXCEPT !.last_purge = now]
    ELSE S

KVStore_set(S, k, p, ttl) ==
    LET S1 == KVStore_maybe_purge_expired(S)
        v == Value(p, now, IF ttl = NoTtl THEN StoreDefaultTtl ELSE ttl)
        S2 == MemoryBackend_set(S1, k, v)
    IN  [S2 EXCEPT !.cache = Cache_set(@, k, v)]

\* a lookup that takes a cache miss for absence
Resolve_cache_only(S, k) ==
    LET g == Cache_get(S.cache, k) IN
    [S |-> [S EXCEPT !.cache = g.c], value |-> g.value]

\* the cache lookup, the backend lookup on a miss and the refill of the cache
Resolve(S, k) ==
    LET g == Cache_get(S.cache, k)
        hit == g.value # NoValue
        bv == MemoryBackend_get(S.backend, k)
    IN  [S |-> [S EXCEPT !.cache = IF ~hit /\ bv # NoValue
                                   THEN Cache_set(g.c, k, bv) ELSE g.c],
         value |-> IF hit THEN g.value ELSE bv]

\* a get that answers the default for an expired value and leaves it stored
KVStore_get_no_delete(S, k, include_expired) ==
    LET r == Resolve(KVStore_maybe_purge_expired(S), k) IN
    IF r.value = NoValue
    THEN [S |-> r.S, ret |-> Default, expired |-> FALSE]
    ELSE IF ~include_expired /\ is_expired(r.value)
    THEN [S |-> r.S, ret |-> Default, expired |-> TRUE]
    ELSE [S |-> r.S, ret |-> r.value.payload, expired |-> FALSE]

KVStore_get(S, k, include_expired) ==
    LET r == Resolve(KVStore_maybe_purge_expired(S), k) IN
    IF r.value = NoValue
    THEN [S |-> r.S, ret |-> Default, expired |-> FALSE]
    ELSE IF ~include_expired /\ is_expired(r.value)
    THEN [S |-> KVStore_delete(r.S, k).S, ret |-> Default, expired |-> TRUE]
    ELSE [S |-> r.S, ret |-> r.value.payload, expired |-> FALSE]

KVStore_exists(S, k) ==
    LET r == Resolve(KVStore_maybe_purge_expired(S), k) IN
    IF r.value = NoValue
    THEN [S |-> r.S, ok |-> FALSE]
    ELSE IF is_expired(r.value)
    THEN [S |-> KVStore_delete(r.S, k).S, ok |-> FALSE]
    ELSE [S |-> r.S, ok |-> TRUE]

KVStore_clear(S) ==
    LET S1 == MemoryBackend_clear(S) IN
    [S1 EXCEPT !.cache = Cache_clear(@)]

----------------------------------------------------------------------------
(* The store under sequential calls *)

StoreKeys == {"k1", "k2"}
StoreTtls == {NoTtl, 1}

StoreConfigs ==
    { [kind |-> "LRU", capacity |-> n, ttl_check |-> TRUE, default_ttl |-> 0,
       cleanup_interval |-> MaxTime + 1, max_size_bytes |-> NoLimit,
       auto_purge |-> a, purge_interval |-> PurgeInterval]
        : n \in Capacities, a \in BOOLEAN }
    \cup
    { [kind |-> "TTL", capacity |-> n, ttl_check |-> TRUE, default_ttl |-> 1,
       cleanup_interval |-> MaxTime + 1, max_size_bytes |-> NoLimit,
       auto_purge |-> a, purge_interval |-> PurgeInterval]
        : n \in Capacities, a \in BOOLEAN }

Init ==
    /\ now = 0
    /\ cfg \in StoreConfigs
    /\ cache = EmptyCache
    /\ backend = EmptyBackend
    /\ last_purge = 0
    /\ tx = NoTx
    /\ accessOrder = <<>>
    /\ ref = EmptyRef
    /\ ttlUsed = FALSE
    /\ lastOp = NoOp
    /\ ExtIdle

St == [backend |-> backend, cache |-> cache, last_purge |-> last_purge]

Becomes(S) ==
    /\ backend' = S.backend
    /\ cache' = S.cache
    /\ last_purge' = S.last_purge

StoreSet(k, p, ttl) ==
    /\ Becomes(KVStore_set(St, k, p, ttl))
    /\ ref' = [ref EXCEPT ![k] = Value(p, now, ttl)]
    /\ ttlUsed' = (ttlUsed \/ ttl # NoTtl)
    /\ lastOp' = [NoOp EXCEPT !.op = "store_set", !.key = k, !.ret = p]
    /\ UNCHANGED <<now, cfg, tx, accessOrder,
                 extVars>>

StoreGet(k, include_expired) ==
    LET r == KVStore_get(St, k, include_expired) IN
    /\ Becomes(r.S)
    /\ lastOp' = [NoOp EXCEPT !.op = "store_get", !.key = k, !.ret = r.ret,
                              !.inc = include_expired, !.expired = r.expired]
    /\ UNCHANGED <<now, cfg, tx, accessOrder, ref, ttlUsed,
                 extVars>>

StoreExists(k) ==
    LET r == KVStore_exists(St, k) IN
    /\ Becomes(r.S)
    /\ lastOp' = [NoOp EXCEPT !.op = "store_exists", !.key = k, !.ok = r.ok]
    /\ UNCHANGED <<now, cfg, tx, accessOrder, ref, ttlUsed,
                 extVars>>

StoreDelete(k) ==
    LET r == KVStore_delete(St, k) IN
    /\ Becomes(r.S)
    /\ ref' = [ref EXCEPT ![k] = NoValue]
    /\ lastOp' = [NoOp EXCEPT !.op = "store_delete", !.key = k, !.ok = r.ok]
    /\ UNCHANGED <<now, cfg, tx, accessOrder, ttlUsed,
                 extVars>>

StoreClear ==
    /\ Becomes(KVStore_clear(St))
    /\ ref' = EmptyRef
    /\ lastOp' = [NoOp EXCEPT !.op = "store_clear"]
    /\ UNCHANGED <<now, cfg, tx, accessOrder, ttlUsed,
                 extVars>>

StorePurgeExpired ==
    LET r == KVStore_purge_expired(St) IN
    /\ Becomes(r.S)
    /\ lastOp' = [NoOp EXCEPT !.op = "store_purge_expired", !.count = r.count]
    /\ UNCHANGED <<now, cfg, tx, accessOrder, ref, ttlUsed,
                 extVars>>

Next ==
    \/ Tick
    \/ \E k \in StoreKeys, p \in Payloads, ttl \in StoreTtls : StoreSet(k, p, ttl)
    \/ \E k \in StoreKeys, i \in BOOLEAN : StoreGet(k, i)
    \/ \E k \in StoreKeys : StoreExists(k)
    \/ \E k \in StoreKeys : StoreDelete(k)
    \/ StoreClear
    \/ StorePurgeExpired

Spec == Init /\ [][Next]_vars

----------------------------------------------------------------------------
(* KVTransaction: core/store.py.  A call on a finished transaction raises   *)
(* ValueError and changes nothing.  A set or delete of a key that is not    *)
(* hashable raises TypeError when the store builds its Key.                 *)

SetOp(k, p, ttl) == [op |-> "set", key |-> k, payload |-> p, ttl |-> ttl]

DeleteOp(k) == [op |-> "delete", key |-> k, payload |-> "", ttl |-> NoTtl]

\* a key Key() rejects, such as a list
UnhashableKey == "unhashable"

Completed(t) == t.committed \/ t.rolled_back

\* what one replayed operation does to the store; a set has looked for a due
\* purge sweep before it builds its Key
\* the element of a set of one; binding a value through such a set has it
\* computed once
Only(S) == CHOOSE x \in S : TRUE

ApplyOperation(S, op) ==
    IF op.key = UnhashableKey
    THEN [S |-> IF op.op = "set" THEN KVStore_maybe_purge_expired(S) ELSE S,
          raised |-> TRUE]
    ELSE [S |-> IF op.op = "set"
                THEN KVStore_set(S, op.key, op.payload, op.ttl)
                ELSE KVStore_delete(S, op.key).S,
          raised |-> FALSE]

\* a replay that starts with the operation recorded last
RECURSIVE ApplyOperations_reversed(_, _)
ApplyOperations_reversed(S, ops) ==
    IF ops = <<>> THEN [S |-> S, raised |-> FALSE]
    ELSE Only({ IF r.raised THEN r
                ELSE ApplyOperations_reversed(r.S, SubSeq(ops, 1, Len(ops) - 1))
                    : r \in {ApplyOperation(S, ops[Len(ops)])} })

\* a replay that goes on with the next operation when one raises
RECURSIVE ApplyOperations_skip_failed(_, _)
ApplyOperations_skip_failed(S, ops) ==
    IF ops = <<>> THEN [S |-> S, raised |-> FALSE]
    ELSE Only({ Only({ [S |-> rest.S, raised |-> r.raised \/ rest.raised]
                           : rest \in {ApplyOperations_skip_failed(r.S, Tail(ops))} })
                    : r \in {ApplyOperation(S, Head(ops))} })

\* the loop of commit over self._operations: it ends at the first operation
\* that raises
RECURSIVE ApplyOperations(_, _)
ApplyOperations(S, ops) ==
    IF ops = <<>> THEN [S |-> S, raised |-> FALSE]
    ELSE Only({ IF r.raised THEN r ELSE ApplyOperations(r.S, Tail(ops))
                    : r \in {ApplyOperation(S, Head(ops))} })

\* a set or delete call on a finished transaction that records all the same
KVTransaction_record_unchecked(t, op) ==
    [t |-> [t EXCEPT !.operations = Append(@, op)], error |-> "none"]

KVTransaction_record(t, op) ==
    IF Completed(t)
    THEN [t |-> t, error |-> "ValueError"]
    ELSE [t |-> [t EXCEPT !.operations = Append(@, op)], error |-> "none"]

KVTransaction_commit(S, t) ==
    IF Completed(t)
    THEN [S |-> S, t |-> t, error |-> "ValueError"]
    ELSE Only({ IF r.raised
                THEN [S |-> r.S, t |-> t, error |-> "TypeError"]
                ELSE [S |-> r.S, t |-> [t EXCEPT !.committed = TRUE],
                      error |-> "none"]
                    : r \in {ApplyOperations(S, t.operations)} })

\* a rollback that leaves the transaction as it is
KVTransaction_rollback_noop(t) ==
    IF Completed(t)
    THEN [t |-> t, error |-> "ValueError"]
    ELSE [t |-> t, error |-> "none"]

KVTransaction_rollback(t) ==
    IF Completed(t)
    THEN [t |-> t, error |-> "ValueError"]
    ELSE [t |-> [t EXCEPT !.operations = <<>>, !.rolled_back = TRUE],
          error |-> "none"]

\* the end of a `with store.transaction()` block: commit when the body ended
\* normally, rollback when the body or the commit raised; the exception the
\* caller sees is the one raised last
KVStore_transaction_exit(S, t, bodyRaised) ==
    IF bodyRaised
    THEN LET r == KVTransaction_rollback(t) IN
         [S |-> S, t |-> r.t,
          error |-> IF r.error = "none" THEN "BodyError" ELSE r.error]
    ELSE Only({ IF c.error = "none" THEN c
                ELSE LET r == KVTransaction_rollback(c.t) IN
                     [S |-> c.S, t |-> r.t,
                      error |-> IF r.error = "none" THEN c.error ELSE r.error]
                    : c \in {KVTransaction_commit(S, t)} })

----------------------------------------------------------------------------
(* The store with one transaction at a time *)

\* the position of the last operation on key k, 0 when there is none
LastOn(ops, k) ==
    IF \E i \in DOMAIN ops : ops[i].key = k
    THEN CHOOSE i \in DOMAIN ops :
            /\ ops[i].key = k
            /\ \A j \in DOMAIN ops : ops[j].key = k => j <= i
    ELSE 0

\* the operations in front of the first one that raises
BeforeFailure(ops) ==
    IF \E i \in DOMAIN ops : ops[i].key = UnhashableKey
    THEN SubSeq(ops, 1, (CHOOSE i \in DOMAIN ops :
                            /\ ops[i].key = UnhashableKey
                            /\ \A j \in 1..(i - 1) : ops[j].key # UnhashableKey) - 1)
    ELSE ops

\* the plain map after the operations: per key the last operation decides
RefAfter(r, ops) ==
    [k \in Keys |->
        LET i == LastOn(ops, k) IN
        IF i = 0 THEN r[k]
        ELSE IF ops[i].op = "set" THEN Value(ops[i].payload, now, ops[i].ttl)
        ELSE NoValue]

\* the stores the transactions run against: a cache smaller than the key set
\* with and without purge sweeps, and a TTLCache that holds every key
TxConfigs ==
    {c \in StoreConfigs :
        \/ c.kind = "LRU" /\ c.capacity = 1
        \/ c.kind = "TTL" /\ c.capacity = 2 /\ ~c.auto_purge}

\* the set calls a transaction records
TxSets == {SetOp("k1", "a", NoTtl), SetOp("k1", "bbb", 1), SetOp("k2", "a", NoTtl),
           SetOp(UnhashableKey, "a", NoTtl)}

InitTx ==
    /\ now = 0
    /\ cfg \in TxConfigs
    /\ cache = EmptyCache
    /\ backend = EmptyBackend
    /\ last_purge = 0
    /\ tx = NoTx
    /\ accessOrder = <<>>
    /\ ref = EmptyRef
    /\ ttlUsed = FALSE
    /\ lastOp = NoOp
    /\ ExtIdle

\* recording reads no clock: time passes between transactions
TxTick ==
    /\ ~tx.open \/ Completed(tx)
    /\ Tick

TxBegin ==
    /\ ~tx.open \/ Completed(tx)
    /\ tx' = [NoTx EXCEPT !.open = TRUE]
    /\ lastOp' = [NoOp EXCEPT !.op = "tx_begin"]
    /\ UNCHANGED <<now, cfg, cache, backend, last_purge, accessOrder, ref, ttlUsed,
                 extVars>>

TxSet(op) ==
    LET r == KVTransaction_record(tx, op) IN
    /\ tx.open
    /\ Completed(tx) \/ Len(tx.operations) < MaxTxOps
    /\ tx' = r.t
    /\ lastOp' = [NoOp EXCEPT !.op = "tx_set", !.ok = (r.error = "none"),
                              !.error = r.error]
    /\ UNCHANGED <<now, cfg, cache, backend, last_purge, accessOrder, ref, ttlUsed,
                 extVars>>

TxDelete(k) ==
    LET r == KVTransaction_record(tx, DeleteOp(k)) IN
    /\ tx.open
    /\ Completed(tx) \/ Len(tx.operations) < MaxTxOps
    /\ tx' = r.t
    /\ lastOp' = [NoOp EXCEPT !.op = "tx_delete", !.ok = (r.error = "none"),
                              !.error = r.error]
    /\ UNCHANGED <<now, cfg, cache, backend, last_purge, accessOrder, ref, ttlUsed,
                 extVars>>

\* what the history variables become when the operations of the transaction
\* in front of the first failure were applied
Replayed(error) ==
    LET applied == BeforeFailure(tx.operations) IN
    /\ ref' = IF error = "ValueError" THEN ref ELSE RefAfter(ref, applied)
    /\ ttlUsed' = (ttlUsed \/ (error # "ValueError" /\ \E i \in DOMAIN applied :
                                                          applied[i].ttl # NoTtl))

TxCommit ==
    \E r \in {KVTransaction_commit(St, tx)} :
    /\ tx.open
    /\ Becomes(r.S)
    /\ tx' = r.t
    /\ Replayed(r.error)
    /\ lastOp' = [NoOp EXCEPT !.op = "tx_commit", !.ok = (r.error = "none"),
                              !.error = r.error]
    /\ UNCHANGED <<now, cfg, accessOrder,
                 extVars>>

TxRollback ==
    LET r == KVTransaction_rollback(tx) IN
    /\ tx.open
    /\ tx' = r.t
    /\ lastOp' = [NoOp EXCEPT !.op = "tx_rollback", !.ok = (r.error = "none"),
                              !.error = r.error]
    /\ UNCHANGED <<now, cfg, cache, backend, last_purge, accessOrder, ref, ttlUsed,
                 extVars>>

\* the body of the with block ended without raising
TxExit ==
    \E r \in {KVStore_transaction_exit(St, tx, FALSE)} :
    /\ tx.open
    /\ Becomes(r.S)
    /\ tx' = r.t
    /\ Replayed(IF Completed(tx) THEN "ValueError" ELSE r.error)
    /\ lastOp' = [NoOp EXCEPT !.op = "tx_exit", !.ok = (r.error = "none"),
                              !.error = r.error]
    /\ UNCHANGED <<now, cfg, accessOrder, extVars>>

\* the body of the with block raised
TxBodyRaises ==
    \E r \in {KVStore_transaction_exit(St, tx, TRUE)} :
    /\ tx.open
    /\ Becomes(r.S)
    /\ tx' = r.t
    /\ lastOp' = [NoOp EXCEPT !.op = "tx_body_raises", !.ok = (r.error = "BodyError"),
                              !.error = r.error]
    /\ UNCHANGED <<now, cfg, accessOrder, ref, ttlUsed, extVars>>

NextTx ==
    \/ TxTick
    \/ TxBegin
    \/ \E op \in TxSets : TxSet(op)
    \/ \E k \in StoreKeys : TxDelete(k)
    \/ TxCommit
    \/ TxRollback
    \/ TxExit
    \/ TxBodyRaises

SpecTx == InitTx /\ [][NextTx]_vars

----------------------------------------------------------------------------
(* Transaction: transaction.py.  It hands its commands to the backend's      *)
(* execute_transaction, which returns the results or raises.                 *)

Transaction_check_active(t) == IF t.active THEN "none" ELSE "TransactionError"

Transaction_record(t, cmd) ==
    IF Transaction_check_active(t) # "none"
    THEN [t |-> t, error |-> Transaction_check_active(t)]
    ELSE [t |-> [t EXCEPT !.commands = Append(@, cmd)], error |-> "none"]

Transaction_execute(t, backendRaises) ==
    IF Transaction_check_active(t) # "none"
    THEN [t |-> t, error |-> Transaction_check_active(t)]
    ELSE [t |-> [t EXCEPT !.calls = @ + 1,
                          !.executed = ~backendRaises,
                          !.active = FALSE],
          error |-> IF backendRaises THEN "TransactionError" ELSE "none"]

Transaction_discard(t) == [t EXCEPT !.active = FALSE]

\* __exit__: execute when the body ended normally, discard when it raised
Transaction_exit(t, bodyRaised, backendRaises) ==
    IF bodyRaised
    THEN [t |-> Transaction_discard(t), error |-> "BodyError"]
    ELSE Transaction_execute(t, backendRaises)

----------------------------------------------------------------------------
(* Transactions of both kinds, used until and after they are finished *)

TxnCommands == {SetOp("k1", "a", NoTtl), DeleteOp("k1")}

InitTxn ==
    /\ now = 0
    /\ cfg \in {c \in TxConfigs : c.kind = "LRU" /\ ~c.auto_purge}
    /\ cache = EmptyCache
    /\ backend = EmptyBackend
    /\ last_purge = 0
    /\ tx = NoTx
    /\ accessOrder = <<>>
    /\ ref = EmptyRef
    /\ ttlUsed = FALSE
    /\ lastOp = NoOp
    /\ ExtIdle

TxnUnchanged ==
    UNCHANGED <<now, cfg, cache, backend, last_purge, tx, accessOrder, ref, ttlUsed,
                threads, update_queue, nodes_down, worker, peer, hist, moreVars>>

TxnBegin ==
    /\ ~txn.built \/ ~txn.active
    /\ txn' = [NoTxn EXCEPT !.built = TRUE, !.active = TRUE]
    /\ lastOp' = [NoOp EXCEPT !.op = "txn_begin"]
    /\ TxnUnchanged

TxnRecord(cmd) ==
    LET r == Transaction_record(txn, cmd) IN
    /\ txn.built
    /\ ~txn.active \/ Len(txn.commands) < MaxCommands
    /\ txn' = r.t
    /\ lastOp' = [NoOp EXCEPT !.op = "txn_record", !.ok = (r.error = "none"),
                              !.error = r.error]
    /\ TxnUnchanged

TxnExecute(backendRaises) ==
    LET r == Transaction_execute(txn, backendRaises) IN
    /\ txn.built
    /\ txn' = r.t
    /\ lastOp' = [NoOp EXCEPT !.op = "txn_execute", !.ok = (r.error = "none"),
                              !.error = r.error]
    /\ TxnUnchanged

TxnDiscard ==
    /\ txn.built
    /\ txn' = Transaction_discard(txn)
    /\ lastOp' = [NoOp EXCEPT !.op = "txn_discard", !.ok = TRUE]
    /\ TxnUnchanged

TxnExit(bodyRaised, backendRaises) ==
    LET r == Transaction_exit(txn, bodyRaised, backendRaises) IN
    /\ txn.built
    /\ txn' = r.t
    /\ lastOp' = [NoOp EXCEPT !.op = "txn_exit", !.ok = (r.error = "none"),
                              !.error = r.error]
    /\ TxnUnchanged

\* the operations a KVTransaction is given next to a Transaction
TxnSets == {SetOp("k1", "a", NoTtl), SetOp(UnhashableKey, "a", NoTtl)}

NextTxn ==
    \/ TxBegin
    \/ \E op \in TxnSets : TxSet(op)
    \/ \E k \in {"k1", UnhashableKey} : TxDelete(k)
    \/ TxCommit
    \/ TxRollback
    \/ TxExit
    \/ TxBodyRaises
    \/ TxnBegin
    \/ \E cmd \in TxnCommands : TxnRecord(cmd)
    \/ \E b \in BOOLEAN : TxnExecute(b)
    \/ TxnDiscard
    \/ \E b1 \in BOOLEAN, b2 \in BOOLEAN : TxnExit(b1, b2)

SpecTxn == InitTxn /\ [][NextTxn]_vars

----------------------------------------------------------------------------
(* The store called by several threads at once.  KVStore holds no lock of   *)
(* its own: the backend and the cache each lock their own call, and the      *)
(* backend runs its callbacks after it released its lock.  A thread takes    *)
(* one such call per step, on the key "k1".                                  *)

ConcKey == "k1"

InitConc ==
    /\ now = 0
    /\ cfg \in {c \in StoreConfigs : c.kind = "LRU" /\ ~c.auto_purge}
    /\ cache = EmptyCache
    /\ backend = EmptyBackend
    /\ last_purge = 0
    /\ tx = NoTx
    /\ accessOrder = <<>>
    /\ ref = EmptyRef
    /\ ttlUsed = FALSE
    /\ lastOp = NoOp
    /\ ExtIdle

ConcUnchanged ==
    UNCHANGED <<now, cfg, last_purge, tx, accessOrder, ref, ttlUsed,
                txn, update_queue, nodes_down, worker, peer, hist, moreVars>>

\* thread t is at position pc and moves on to position next
At(t, pc) == threads[t].pc = pc

Goto(t, next) == threads' = [threads EXCEPT ![t].pc = next]

Return(t) == threads' = [threads EXCEPT ![t] = IdleThread]

\* a thread enters set, get or delete
ConcCall(t, op, p) ==
    /\ At(t, "idle")
    /\ threads' = [threads EXCEPT ![t] =
                     [pc |-> IF op = "set" THEN "set_backend"
                             ELSE IF op = "get" THEN "get_cache"
                             ELSE "delete_backend",
                      op |-> op,
                      payload |-> IF op = "set" THEN p ELSE "",
                      value |-> NoValue]]
    /\ lastOp' = [NoOp EXCEPT !.op = "conc_call"]
    /\ UNCHANGED <<cache, backend>>
    /\ ConcUnchanged

\* set: the Value is built and the backend stores it under its lock
ConcSetBackend(t) ==
    LET v == Value(threads[t].payload, now, StoreDefaultTtl) IN
    /\ At(t, "set_backend")
    /\ backend' = [backend EXCEPT ![ConcKey] = v]
    /\ threads' = [threads EXCEPT ![t].pc = "set_callback", ![t].value = v]
    /\ lastOp' = [NoOp EXCEPT !.op = "conc_set_backend"]
    /\ UNCHANGED cache
    /\ ConcUnchanged

\* set: the backend's callback writes the cache
ConcSetCallback(t) ==
    /\ At(t, "set_callback")
    /\ cache' = Cache_set(cache, ConcKey, threads[t].value)
    /\ Goto(t, "set_cache")
    /\ lastOp' = [NoOp EXCEPT !.op = "conc_set_callback"]
    /\ UNCHANGED backend
    /\ ConcUnchanged

\* set: the store writes the cache and returns
ConcSetCache(t) ==
    /\ At(t, "set_cache")
    /\ cache' = Cache_set(cache, ConcKey, threads[t].value)
    /\ Return(t)
    /\ lastOp' = [NoOp EXCEPT !.op = "conc_set_cache"]
    /\ UNCHANGED backend
    /\ ConcUnchanged

\* get: the cache lookup; a hit that is not expired is returned
ConcGetCache(t) ==
    LET g == Cache_get(cache, ConcKey) IN
    /\ At(t, "get_cache")
    /\ cache' = g.c
    /\ threads' = [threads EXCEPT
                     ![t] = IF g.value = NoValue
                            THEN [@ EXCEPT !.pc = "get_backend"]
                            ELSE IF is_expired(g.value)
                            THEN [@ EXCEPT !.pc = "delete_backend"]
                            ELSE IdleThread]
    /\ lastOp' = [NoOp EXCEPT !.op = "conc_get_cache"]
    /\ UNCHANGED backend
    /\ ConcUnchanged

\* get: the backend lookup after a cache miss
ConcGetBackend(t) ==
    LET v == MemoryBackend_get(backend, ConcKey) IN
    /\ At(t, "get_backend")
    /\ threads' = [threads EXCEPT
                     ![t] = IF v = NoValue THEN IdleThread
                            ELSE [@ EXCEPT !.pc = "get_refill", !.value = v]]
    /\ lastOp' = [NoOp EXCEPT !.op = "conc_get_backend"]
    /\ UNCHANGED <<cache, backend>>
    /\ ConcUnchanged

\* get: the value read from the backend is put into the cache; an expired one
\* is then deleted
ConcGetRefill(t) ==
    /\ At(t, "get_refill")
    /\ cache' = Cache_set(cache, ConcKey, threads[t].value)
    /\ IF is_expired(threads[t].value) THEN Goto(t, "delete_backend") ELSE Return(t)
    /\ lastOp' = [NoOp EXCEPT !.op = "conc_get_refill"]
    /\ UNCHANGED backend
    /\ ConcUnchanged

\* delete: the backend removes the key under its lock
ConcDeleteBackend(t) ==
    /\ At(t, "delete_backend")
    /\ backend' = [backend EXCEPT ![ConcKey] = NoValue]
    /\ Goto(t, IF backend[ConcKey] # NoValue THEN "delete_callback" ELSE "delete_cache")
    /\ lastOp' = [NoOp EXCEPT !.op = "conc_delete_backend"]
    /\ UNCHANGED cache
    /\ ConcUnchanged

\* delete: the backend's callback, run when the key was there
ConcDeleteCallback(t) ==
    /\ At(t, "delete_callback")
    /\ cache' = Cache_delete(cache, ConcKey).c
    /\ Goto(t, "delete_cache")
    /\ lastOp' = [NoOp EXCEPT !.op = "conc_delete_callback"]
    /\ UNCHANGED backend
    /\ ConcUnchanged

\* delete: the store removes the key from the cache and returns
ConcDeleteCache(t) ==
    /\ At(t, "delete_cache")
    /\ cache' = Cache_delete(cache, ConcKey).c
    /\ Return(t)
    /\ lastOp' = [NoOp EXCEPT !.op = "conc_delete_cache"]
    /\ UNCHANGED backend
    /\ ConcUnchanged

NextConc ==
    \/ \E t \in ThreadIds, op \in {"set", "get", "delete"}, p \in Payloads :
            ConcCall(t, op, p)
    \/ \E t \in ThreadIds : ConcSetBackend(t)
    \/ \E t \in ThreadIds : ConcSetCallback(t)
    \/ \E t \in ThreadIds : ConcSetCache(t)
    \/ \E t \in ThreadIds : ConcGetCache(t)
    \/ \E t \in ThreadIds : ConcGetBackend(t)
    \/ \E t \in ThreadIds : ConcGetRefill(t)
    \/ \E t \in ThreadIds : ConcDeleteBackend(t)
    \/ \E t \in ThreadIds : ConcDeleteCallback(t)
    \/ \E t \in ThreadIds : ConcDeleteCache(t)

SpecConc == InitConc /\ [][NextConc]_vars

----------------------------------------------------------------------------
(* DistributedClient: distributed/client.py.  An update is [op, id]; its key *)
(* and value do not matter to the fan-out.  A request is answered by what    *)
(* the node answers at that moment: a status code, or a RequestException.    *)

\* queue.Queue(maxsize).put(item, block=False)
Queue_put_unbounded(q, item) == [q |-> Append(q, item), full |-> FALSE]

Queue_put(q, item) ==
    IF Len(q) >= cfg.max_queue_size
    THEN [q |-> q, full |-> TRUE]
    ELSE [q |-> Append(q, item), full |-> FALSE]

\* queue.Queue.get()
Queue_get_last(q) == [item |-> q[Len(q)], q |-> SubSeq(q, 1, Len(q) - 1)]

Queue_get(q) == [item |-> Head(q), q |-> Tail(q)]

\* a fan-out that takes itself for successful from the start
StartRun_successful(update) ==
    [busy |-> TRUE, update |-> update, node |-> 1, attempt |-> 0, success |-> TRUE]

\* the start of a fan-out over self._nodes
StartRun(update) ==
    [busy |-> TRUE, update |-> update, node |-> 1, attempt |-> 0, success |-> FALSE]

\* a fan-out that does not look at the down-set
NextNode_any(i, down) == i

\* the node the loop over self._nodes attempts next from position i on: the
\* nodes in the down-set are skipped; past the end when none is left
NextNode(i, down) ==
    IF \E j \in i..Len(Nodes) : Nodes[j] \notin down
    THEN CHOOSE j \in i..Len(Nodes) :
            /\ Nodes[j] \notin down
            /\ \A l \in i..(j - 1) : Nodes[l] \in down
    ELSE Len(Nodes) + 1

\* a fan-out that ends at the first node that used up its attempts
AfterExhausted_abort(w, j) == [w EXCEPT !.busy = FALSE, !.node = j]

\* the last attempt on node j failed: the loop goes on with the next node
AfterExhausted(w, j) == [w EXCEPT !.node = j + 1, !.attempt = 0]

\* a fan-out that takes 200 alone for an answer
Answers_only_200(read, r) == r = "200"

\* the answers that end the attempts on a node: 200, and for get_remote 404
Answers(read, r) == r = "200" \/ (read /\ r = "404")

\* a loop over the attempts that sends one request more
LastAttempt_one_more(attempt) == attempt = cfg.retry_attempts

\* attempt == self._retry_attempts - 1
LastAttempt(attempt) == attempt = cfg.retry_attempts - 1

\* one request of a fan-out (read: get_remote, else a propagation) and what
\* follows from its answer; without a node left the fan-out ends.  failed is
\* what the request adds to propagations_failed, or to reads_failed.
FanOutStep(w, down, read) ==
    LET j == IF w.attempt = 0 THEN NextNode(w.node, down) ELSE w.node IN
    IF j > Len(Nodes)
    THEN [w |-> [w EXCEPT !.busy = FALSE, !.node = j], down |-> down,
          sent |-> 0, answer |-> "none", failed |-> 0]
    ELSE LET n == Nodes[j]
             r == peer[n]
         IN  IF Answers(read, r)
             THEN [w |-> IF read
                         THEN [w EXCEPT !.busy = FALSE, !.node = j,
                                        !.success = (r = "200")]
                         ELSE [w EXCEPT !.node = j + 1, !.attempt = 0,
                                        !.success = TRUE],
                   down |-> down \ {n}, sent |-> j, answer |-> r, failed |-> 0]
             ELSE IF LastAttempt(w.attempt)
             THEN [w |-> AfterExhausted(w, j), down |-> down \cup {n},
                   sent |-> j, answer |-> r, failed |-> 1]
             ELSE [w |-> [w EXCEPT !.node = j, !.attempt = @ + 1], down |-> down,
                   sent |-> j, answer |-> r, failed |-> 0]

\* a fan-out run in the caller's thread, from its start to its return
RECURSIVE RunToEnd(_, _, _, _)
RunToEnd(w, down, read, contacted) ==
    IF ~w.busy
    THEN [w |-> w, down |-> down, contacted |-> contacted]
    ELSE Only({ RunToEnd(st.w, st.down, read,
                         IF st.sent = 0 THEN contacted
                         ELSE contacted \cup {Nodes[st.sent]})
                    : st \in {FanOutStep(w, down, read)} })

\* the requests of such a fan-out in the order sent: the node and its answer
RECURSIVE SentRequests(_, _, _)
SentRequests(w, down, read) ==
    IF ~w.busy
    THEN <<>>
    ELSE Only({ (IF st.sent = 0 THEN <<>>
                 ELSE <<[node |-> Nodes[st.sent], answer |-> st.answer]>>)
                \o SentRequests(st.w, st.down, read)
                    : st \in {FanOutStep(w, down, read)} })

\* what such a fan-out adds to propagations_failed, or to reads_failed
RECURSIVE FailedCount(_, _, _)
FailedCount(w, down, read) ==
    IF ~w.busy
    THEN 0
    ELSE Only({ st.failed + FailedCount(st.w, st.down, read)
                    : st \in {FanOutStep(w, down, read)} })

\* a propagate_* call that lets queue.Full reach its caller
DistributedClient_propagate_full_uncaught(q, down, update) ==
    IF cfg.async_updates
    THEN LET r == Queue_put(q, update) IN
         [q |-> r.q, down |-> down, ok |-> ~r.full,
          error |-> IF r.full THEN "Full" ELSE "none", contacted |-> {}]
    ELSE LET r == RunToEnd(StartRun(update), down, FALSE, {}) IN
         [q |-> q, down |-> r.down, ok |-> r.w.success, error |-> "none",
          contacted |-> r.contacted]

\* propagate_set, propagate_delete, propagate_clear
DistributedClient_propagate(q, down, update) ==
    IF cfg.async_updates
    THEN LET r == Queue_put(q, update) IN
         [q |-> r.q, down |-> down, ok |-> ~r.full, error |-> "none",
          contacted |-> {}]
    ELSE LET r == RunToEnd(StartRun(update), down, FALSE, {}) IN
         [q |-> q, down |-> r.down, ok |-> r.w.success, error |-> "none",
          contacted |-> r.contacted]

DistributedClient_get_remote(down) ==
    LET r == RunToEnd(StartRun(NoUpdate), down, TRUE, {}) IN
    [down |-> r.down, ret |-> IF r.w.success THEN "v" ELSE "None",
     contacted |-> r.contacted]

----------------------------------------------------------------------------
(* The client with its worker thread, its callers and its nodes *)

\* the stores a client is attached to, sync and async, with one attempt per
\* node and with retries, with a queue of one and a longer one
DistConfigs ==
    { [kind |-> "LRU", capacity |-> 2, ttl_check |-> TRUE, default_ttl |-> 0,
       cleanup_interval |-> MaxTime + 1, max_size_bytes |-> NoLimit,
       auto_purge |-> FALSE, purge_interval |-> PurgeInterval,
       async_updates |-> a, max_queue_size |-> q, retry_attempts |-> r]
        : a \in BOOLEAN, q \in {1, MaxQueueSize}, r \in {1, MaxRetryAttempts} }

InitDist ==
    /\ now = 0
    /\ cfg \in {c \in DistConfigs : c.async_updates \/ c.max_queue_size = 1}
    /\ cache = EmptyCache
    /\ backend = EmptyBackend
    /\ last_purge = 0
    /\ tx = NoTx
    /\ accessOrder = <<>>
    /\ ref = EmptyRef
    /\ ttlUsed = FALSE
    /\ lastOp = NoOp
    /\ ExtIdle

DistStoreUnchanged ==
    UNCHANGED <<now, cfg, cache, backend, last_purge, tx, accessOrder, ref, ttlUsed,
                txn, threads, moreVars>>

\* what a node answers with: the first any status the code tells apart or no
\* answer at all, the second a success or no answer
NodeResponses == [n \in NodeSet |-> IF n = Nodes[1] THEN Responses ELSE {"200", "exc"}]

\* the node answers differently from now on
PeerChange(n, r) ==
    /\ peer[n] # r
    /\ peer' = [peer EXCEPT ![n] = r]
    /\ lastOp' = [NoOp EXCEPT !.op = "peer_change"]
    /\ UNCHANGED <<update_queue, nodes_down, worker, hist>>
    /\ DistStoreUnchanged

\* the update a propagate_* call hands on: numbered in async mode
NewUpdate(op) ==
    [op |-> op, id |-> IF cfg.async_updates THEN hist.calls + 1 ELSE 0]

\* the history after a propagate_* call
Called(r) ==
    hist' = IF cfg.async_updates
            THEN [hist EXCEPT !.calls = @ + 1,
                              !.dropped = IF r.ok THEN @ ELSE @ \cup {hist.calls + 1}]
            ELSE hist

\* the requests a call sends in its caller's thread: none in async mode
SyncRequests(read) ==
    IF read \/ ~cfg.async_updates
    THEN SentRequests(StartRun(NoUpdate), nodes_down, read)
    ELSE <<>>

\* what a call adds to the counter of failures in its caller's thread
SyncFailed(read) ==
    IF read \/ ~cfg.async_updates
    THEN FailedCount(StartRun(NoUpdate), nodes_down, read)
    ELSE 0

CanCall == cfg.async_updates => hist.calls < MaxUpdates

\* KVStore.set with the client attached: the local write, then the propagation
DStoreSet(k, p) ==
    LET S == KVStore_set(St, k, p, NoTtl)
        r == DistributedClient_propagate(update_queue, nodes_down, NewUpdate("set"))
    IN  /\ CanCall
        /\ Becomes(S)
        /\ update_queue' = r.q
        /\ nodes_down' = r.down
        /\ Called(r)
        /\ lastOp' = [NoOp EXCEPT !.op = "dstore_set", !.key = k, !.ret = p,
                                  !.ok = r.ok, !.error = r.error,
                                  !.contacted = r.contacted,
                                  !.requests = SyncRequests(FALSE),
                                  !.failed = SyncFailed(FALSE)]
        /\ UNCHANGED <<worker, peer>>
        /\ UNCHANGED <<now, cfg, tx, accessOrder, ref, ttlUsed, txn, threads, moreVars>>

\* KVStore.delete with the client attached
DStoreDelete(k) ==
    LET S == KVStore_delete(St, k).S
        r == DistributedClient_propagate(update_queue, nodes_down, NewUpdate("delete"))
    IN  /\ CanCall
        /\ Becomes(S)
        /\ update_queue' = r.q
        /\ nodes_down' = r.down
        /\ Called(r)
        /\ lastOp' = [NoOp EXCEPT !.op = "dstore_delete", !.key = k,
                                  !.ok = r.ok, !.error = r.error,
                                  !.contacted = r.contacted,
                                  !.requests = SyncRequests(FALSE),
                                  !.failed = SyncFailed(FALSE)]
        /\ UNCHANGED <<worker, peer>>
        /\ UNCHANGED <<now, cfg, tx, accessOrder, ref, ttlUsed, txn, threads, moreVars>>

GetRemote ==
    LET r == DistributedClient_get_remote(nodes_down) IN
    /\ nodes_down' = r.down
    /\ lastOp' = [NoOp EXCEPT !.op = "get_remote", !.ret = r.ret,
                              !.contacted = r.contacted,
                              !.requests = SyncRequests(TRUE),
                              !.failed = SyncFailed(TRUE)]
    /\ UNCHANGED <<update_queue, worker, peer, hist>>
    /\ DistStoreUnchanged

\* the worker takes the next update from the queue
WorkerDequeue ==
    LET g == Queue_get(update_queue) IN
    /\ cfg.async_updates
    /\ ~worker.busy
    /\ update_queue # <<>>
    /\ update_queue' = g.q
    /\ worker' = StartRun(g.item)
    /\ hist' = [hist EXCEPT !.tried = {}, !.skipped = {}, !.got200 = FALSE]
    /\ lastOp' = [NoOp EXCEPT !.op = "worker_dequeue", !.count = g.item.id]
    /\ UNCHANGED <<nodes_down, peer>>
    /\ DistStoreUnchanged

\* the worker sends one request of the update at hand, or finds no node left
\* and is done with the update
WorkerStep ==
    LET st == FanOutStep(worker, nodes_down, FALSE)
        id == worker.update.id
        passed == IF worker.attempt # 0 THEN {}
                  ELSE {Nodes[l] : l \in worker.node..((IF st.sent = 0
                                                        THEN Len(Nodes) + 1
                                                        ELSE st.sent) - 1)}
    IN  /\ worker.busy
        /\ worker' = IF st.w.busy THEN st.w ELSE IdleWorker
        /\ nodes_down' = st.down
        /\ hist' = IF st.sent = 0
                   THEN [hist EXCEPT !.finished = @ \cup {id},
                                     !.skipped = @ \cup passed]
                   ELSE [hist EXCEPT !.lastReq[Nodes[st.sent]] = id,
                                     !.tried = @ \cup {Nodes[st.sent]},
                                     !.skipped = @ \cup passed,
                                     !.got200 = @ \/ st.answer = "200"]
        /\ lastOp' = IF st.sent = 0
                     THEN [NoOp EXCEPT !.op = "worker_done", !.count = id,
                                       !.ok = worker.success]
                     ELSE [NoOp EXCEPT !.op = "worker_request", !.count = id,
                                       !.node = Nodes[st.sent],
                                       !.inc = (worker.attempt = 0),
                                       !.failed = st.failed]
        /\ UNCHANGED <<update_queue, peer>>
        /\ DistStoreUnchanged

NextDist ==
    \/ \E n \in NodeSet : \E r \in NodeResponses[n] : PeerChange(n, r)
    \/ DStoreSet("k1", "a")
    \/ DStoreDelete("k1")
    \/ GetRemote
    \/ WorkerDequeue
    \/ WorkerStep

SpecDist == InitDist /\ [][NextDist]_vars

\* The client in sync mode, with callers that keep calling: get_remote is
\* called again and again, and so are set and delete of the store.  Nothing
\* is assumed of the nodes: each may answer with any status or not at all.
InitDistSync ==
    /\ InitDist
    /\ ~cfg.async_updates

NextDistSync ==
    \/ \E n \in NodeSet : \E r \in Responses : PeerChange(n, r)
    \/ DStoreSet("k1", "a")
    \/ DStoreDelete("k1")
    \/ GetRemote

SpecDistSync ==
    /\ InitDistSync
    /\ [][NextDistSync]_vars
    /\ WF_vars(GetRemote)
    /\ WF_vars(DStoreSet("k1", "a") \/ DStoreDelete("k1"))

----------------------------------------------------------------------------
(* DistributedServer: distributed/server.py.  A request is its Authorization *)
(* header as the words a single space separates (none when absent), its      *)
(* propagation source header and the fields of its JSON body.  The request   *)
(* counters of the server are left out: no handler reads them.               *)

NoToken == "None"
NoSource == "None"
TypeTags == {"StringValue", "IntValue", "FloatValue", "BytesValue", "JsonValue",
             "PickleValue"}

\* a Value object handed to the store as the thing to store: its class, its
\* payload and its ttl
TtlName(ttl) == IF ttl = NoTtl THEN "None" ELSE IF ttl = 1 THEN "1" ELSE "n"

ValueObject(type, p, ttl) == type \o "(" \o p \o ", ttl=" \o TtlName(ttl) \o ")"

ValueObjects == {ValueObject(t, p, ttl) : t \in TypeTags, p \in Payloads, ttl \in Ttls}

\* hasattr(x, "to_dict"): true of a Value object, false of a str
HasToDict(x) == x \in ValueObjects

\* _authenticate: without a configured token every request passes; else the
\* header must start with "Bearer " and the word after the first space must
\* be the token
DistributedServer_authenticate(h) ==
    IF cfg.auth_token = NoToken THEN TRUE
    ELSE /\ Len(h) >= 2
         /\ h[1] = "Bearer"
         /\ h[2] = cfg.auth_token

\* a server without loop guard
IsLoop_never(source) == FALSE

\* the request names this node as the source of the propagation
IsLoop(source) == source # NoSource /\ source = cfg.node_id

\* KVStore.set, delete and clear as the server calls them: the local write
\* and, with a client attached to the store, the propagate_* call
AttachedStore_set(S, q, k, x) ==
    LET r == DistributedClient_propagate(q, {}, [op |-> "set", id |-> 0]) IN
    [S |-> KVStore_set(S, k, x, NoTtl),
     q |-> IF cfg.attached THEN r.q ELSE q, propagated |-> cfg.attached]

AttachedStore_delete(S, q, k) ==
    LET r == DistributedClient_propagate(q, {}, [op |-> "delete", id |-> 0])
        d == KVStore_delete(S, k)
    IN  [S |-> d.S, ok |-> d.ok,
         q |-> IF cfg.attached THEN r.q ELSE q, propagated |-> cfg.attached]

AttachedStore_clear(S, q) ==
    LET r == DistributedClient_propagate(q, {}, [op |-> "clear", id |-> 0]) IN
    [S |-> KVStore_clear(S),
     q |-> IF cfg.attached THEN r.q ELSE q, propagated |-> cfg.attached]

\* what a handler answers: the store and the queue after it, the status code
Answer(S, q, status) ==
    [S |-> S, q |-> q, status |-> status, skipped |-> FALSE, propagated |-> FALSE]

\* GET /key/<key>
Server_get_key(S, q, h, k) ==
    IF ~DistributedServer_authenticate(h) THEN Answer(S, q, 401)
    ELSE Only({ IF g.ret = Default THEN Answer(g.S, q, 404)
                ELSE IF HasToDict(g.ret) THEN Answer(g.S, q, 200)
                ELSE Answer(g.S, q, 500)
                    : g \in {KVStore_get(S, k, FALSE)} })

\* POST /key
Server_set_key(S, q, h, body) ==
    IF ~DistributedServer_authenticate(h) THEN Answer(S, q, 401)
    ELSE IF ~body.valid THEN Answer(S, q, 400)
    ELSE IF body.type \notin TypeTags THEN Answer(S, q, 400)
    ELSE Only({ [Answer(r.S, r.q, 200) EXCEPT !.propagated = r.propagated]
                    : r \in {AttachedStore_set(S, q, body.key,
                                ValueObject(body.type, body.payload, body.ttl))} })

\* DELETE /key/<key>
Server_delete_key(S, q, h, k) ==
    IF ~DistributedServer_authenticate(h) THEN Answer(S, q, 401)
    ELSE Only({ [Answer(r.S, r.q, IF r.ok THEN 200 ELSE 404)
                    EXCEPT !.propagated = r.propagated]
                    : r \in {AttachedStore_delete(S, q, k)} })

\* POST /propagate
Server_propagate(S, q, h, source, body) ==
    IF ~DistributedServer_authenticate(h) THEN Answer(S, q, 401)
    ELSE IF ~cfg.allow_propagation THEN Answer(S, q, 403)
    ELSE IF IsLoop(source) THEN [Answer(S, q, 200) EXCEPT !.skipped = TRUE]
    ELSE IF ~body.valid THEN Answer(S, q, 400)
    ELSE IF body.operation = "set"
    THEN IF body.type \notin TypeTags THEN Answer(S, q, 400)
         ELSE Only({ [Answer(r.S, r.q, 200) EXCEPT !.propagated = r.propagated]
                        : r \in {AttachedStore_set(S, q, body.key,
                                    ValueObject(body.type, body.payload, body.ttl))} })
    ELSE IF body.operation = "delete"
    THEN Only({ [Answer(r.S, r.q, 200) EXCEPT !.propagated = r.propagated]
                    : r \in {AttachedStore_delete(S, q, body.key)} })
    ELSE IF body.operation = "clear"
    THEN Only({ [Answer(r.S, r.q, 200) EXCEPT !.propagated = r.propagated]
                    : r \in {AttachedStore_clear(S, q)} })
    ELSE Answer(S, q, 400)

\* GET /stats
Server_stats(S, q, h) ==
    IF ~DistributedServer_authenticate(h) THEN Answer(S, q, 401) ELSE Answer(S, q, 200)

\* GET /health
Server_health(S, q) == Answer(S, q, 200)

----------------------------------------------------------------------------
(* A node: a store, with or without client, behind a server; local callers  *)
(* and remote requests                                                       *)

AuthToken == "tok"
NodeId == "A"

\* no header, the right one, a wrong token, the token without scheme, and
\* the right one with a word more
AuthHeaders ==
    {<<>>, <<"Bearer", AuthToken>>, <<"Bearer", "bad">>, <<AuthToken>>,
     <<"Bearer", AuthToken, "extra">>}

SourceHeaders == {NoSource, NodeId, "B"}

Body(valid, operation, k, type, p, ttl) ==
    [valid |-> valid, operation |-> operation, key |-> k, type |-> type,
     payload |-> p, ttl |-> ttl]

SrvKeys == {"k1"}

\* the bodies of POST /key: a set of each kind, one with an unknown type tag
\* and one without key or value
SetBodies ==
    {Body(TRUE, "set", k, "StringValue", "a", ttl) : k \in SrvKeys, ttl \in {NoTtl, 1}}
    \cup {Body(TRUE, "set", "k1", "Bogus", "a", NoTtl),
          Body(FALSE, "set", "k1", "StringValue", "a", NoTtl)}

\* the bodies of POST /propagate
PropagateBodies ==
    SetBodies
    \cup {Body(TRUE, op, "k1", "StringValue", "a", NoTtl) : op \in {"delete", "clear", "bogus"}}

\* the requests sent: every Authorization header with a set that would
\* change the store, and every source and body under the right header
Bearer == <<"Bearer", AuthToken>>

SetRequests ==
    {<<h, Body(TRUE, "set", "k1", "StringValue", "a", 1)>> : h \in AuthHeaders}
    \cup {<<Bearer, b>> : b \in SetBodies}

PropagateRequests ==
    {<<h, NoSource, Body(TRUE, "set", "k1", "StringValue", "a", 1)>> : h \in AuthHeaders}
    \cup {<<Bearer, src, b>> : src \in SourceHeaders, b \in PropagateBodies}

SrvConfigs ==
    { [kind |-> "LRU", capacity |-> 2, ttl_check |-> TRUE, default_ttl |-> 0,
       cleanup_interval |-> MaxTime + 1, max_size_bytes |-> NoLimit,
       auto_purge |-> FALSE, purge_interval |-> PurgeInterval,
       async_updates |-> TRUE, max_queue_size |-> 1, retry_attempts |-> 1,
       auth_token |-> t, allow_propagation |-> a, node_id |-> NodeId, attached |-> c]
        : t \in {NoToken, AuthToken}, a \in BOOLEAN, c \in BOOLEAN }

InitSrv ==
    /\ now = 0
    /\ cfg \in SrvConfigs
    /\ cache = EmptyCache
    /\ backend = EmptyBackend
    /\ last_purge = 0
    /\ tx = NoTx
    /\ accessOrder = <<>>
    /\ ref = EmptyRef
    /\ ttlUsed = FALSE
    /\ lastOp = NoOp
    /\ ExtIdle

SrvUnchanged ==
    UNCHANGED <<cfg, tx, accessOrder, ref, ttlUsed, txn, threads, nodes_down, worker,
                peer, hist, moreVars>>

SrvTick ==
    /\ now < MaxTime
    /\ now' = now + 1
    /\ lastOp' = [NoOp EXCEPT !.op = "tick"]
    /\ UNCHANGED <<cache, backend, last_purge, update_queue>>
    /\ SrvUnchanged

\* the handler answered a to the request req
Answered(a, req) ==
    /\ Becomes(a.S)
    /\ update_queue' = a.q
    /\ lastOp' = [req EXCEPT !.status = a.status, !.skipped = a.skipped,
                             !.propagated = a.propagated]
    /\ UNCHANGED now
    /\ SrvUnchanged

\* a caller on the node sets a key through the store
SrvLocalSet(k, p, ttl) ==
    \E r \in {DistributedClient_propagate(update_queue, {}, [op |-> "set", id |-> 0])} :
        /\ Becomes(KVStore_set(St, k, p, ttl))
        /\ update_queue' = IF cfg.attached THEN r.q ELSE update_queue
        /\ lastOp' = [NoOp EXCEPT !.op = "local_set", !.key = k, !.ret = p,
                                  !.ttl = ttl, !.propagated = cfg.attached]
        /\ UNCHANGED now
        /\ SrvUnchanged

\* the client's worker takes the queue's head away
SrvDrain ==
    /\ update_queue # <<>>
    /\ update_queue' = Queue_get(update_queue).q
    /\ lastOp' = [NoOp EXCEPT !.op = "drain"]
    /\ UNCHANGED <<now, cache, backend, last_purge>>
    /\ SrvUnchanged

GetKey(h, k) ==
    \E a \in {Server_get_key(St, update_queue, h, k)} :
        Answered(a, [NoOp EXCEPT !.op = "get_key", !.auth = h, !.key = k])

SetKey(h, body) ==
    \E a \in {Server_set_key(St, update_queue, h, body)} :
        Answered(a, [NoOp EXCEPT !.op = "set_key", !.auth = h, !.key = body.key,
                                 !.ret = body.payload, !.ttl = body.ttl])

DeleteKey(h, k) ==
    \E a \in {Server_delete_key(St, update_queue, h, k)} :
        Answered(a, [NoOp EXCEPT !.op = "delete_key", !.auth = h, !.key = k])

PostPropagate(h, source, body) ==
    \E a \in {Server_propagate(St, update_queue, h, source, body)} :
        Answered(a, [NoOp EXCEPT !.op = "propagate", !.auth = h, !.source = source,
                                 !.key = body.key, !.ret = body.payload,
                                 !.ttl = body.ttl, !.operation = body.operation])

GetStats(h) ==
    \E a \in {Server_stats(St, update_queue, h)} :
        Answered(a, [NoOp EXCEPT !.op = "stats", !.auth = h])

GetHealth(h) ==
    \E a \in {Server_health(St, update_queue)} :
        Answered(a, [NoOp EXCEPT !.op = "health", !.auth = h])

NextSrv ==
    \/ SrvTick
    \/ \E k \in SrvKeys, ttl \in {NoTtl, 1} : SrvLocalSet(k, "a", ttl)
    \/ SrvDrain
    \/ \E h \in AuthHeaders, k \in SrvKeys : GetKey(h, k)
    \/ \E rq \in SetRequests : SetKey(rq[1], rq[2])
    \/ \E h \in AuthHeaders, k \in SrvKeys : DeleteKey(h, k)
    \/ \E rq \in PropagateRequests : PostPropagate(rq[1], rq[2], rq[3])
    \/ \E h \in AuthHeaders : GetStats(h)
    \/ \E h \in AuthHeaders : GetHealth(h)

SpecSrv == InitSrv /\ [][NextSrv]_vars

----------------------------------------------------------------------------
(* A cluster of two nodes, A and B: each has a store with a client in async *)
(* mode that lists the other node, and a server without token in front of   *)
(* the store.  Callers set one key on A.  Of a value the cluster keeps the   *)
(* number of Value objects wrapped inside its envelope: 0 for the envelope   *)
(* Store.set builds around a caller's payload.                               *)

MaxLocalSets == 1

\* the number of wrapped objects beyond which pickle.dumps raises
\* RecursionError
MaxNesting == 3

ClusterNodes == {"A", "B"}

\* the one node of self._nodes
PeerOf(n) == IF n = "A" THEN "B" ELSE "A"

NoEntry == -1

NoSet == [op |-> "none", nesting |-> 0]

\* requests.post(url, json=data, timeout=...): the client sends no header
ClientSourceHeader == NoSource

\* a store that keeps a Value object it is handed as the envelope
KVStore_set_nesting_kept(n) == n

\* KVStore.set handed a Value object wraps it in a PickleValue of its own
KVStore_set_nesting(n) == n + 1

\* Value.to_dict on the worker: a PickleValue pickles what it wraps
ToDictRaises(update) == update.nesting > MaxNesting

ClusterConfig ==
    [kind |-> "LRU", capacity |-> 2, ttl_check |-> TRUE, default_ttl |-> 0,
     cleanup_interval |-> MaxTime + 1, max_size_bytes |-> NoLimit,
     auto_purge |-> FALSE, purge_interval |-> PurgeInterval,
     async_updates |-> TRUE, max_queue_size |-> MaxQueueSize, retry_attempts |-> 1,
     auth_token |-> NoToken, allow_propagation |-> TRUE, node_id |-> NodeId,
     attached |-> TRUE]

\* held: the nesting of the envelope each store holds under the key;
\* queue, busy, down: each client's update queue, the update its worker took
\* from the queue and has not finished, and whether its down-set holds the
\* peer; up: whether the node's server can be reached; sets: the calls made
InitCluster ==
    /\ now = 0
    /\ cfg = ClusterConfig
    /\ cache = EmptyCache
    /\ backend = EmptyBackend
    /\ last_purge = 0
    /\ tx = NoTx
    /\ accessOrder = <<>>
    /\ ref = EmptyRef
    /\ ttlUsed = FALSE
    /\ lastOp = NoOp
    /\ txn = NoTxn
    /\ threads = [t \in ThreadIds |-> IdleThread]
    /\ update_queue = <<>>
    /\ nodes_down = {}
    /\ worker = IdleWorker
    /\ peer = [n \in NodeSet |-> "200"]
    /\ hist = NoHist
    /\ cluster = [built |-> TRUE,
                  held |-> [n \in ClusterNodes |-> NoEntry],
                  queue |-> [n \in ClusterNodes |-> <<>>],
                  busy |-> [n \in ClusterNodes |-> NoSet],
                  down |-> [n \in ClusterNodes |-> FALSE],
                  up |-> [n \in ClusterNodes |-> TRUE],
                  sets |-> 0]
    /\ lifecycle = NoLifecycle
    /\ codec = NoCodec

ClusterUnchanged ==
    UNCHANGED <<now, cfg, cache, backend, last_purge, tx, accessOrder, ref, ttlUsed,
                txn, threads, update_queue, nodes_down, worker, peer, hist,
                lifecycle, codec>>

\* Store.set on node n of a value of the given nesting: the write and the
\* propagate_set call, which puts the update on the queue unless it is full
ClusterStore_set(c, n, nesting) ==
    [c EXCEPT !.held[n] = nesting,
              !.queue[n] = Queue_put(@, [op |-> "set", nesting |-> nesting]).q]

\* a caller sets the key on A
ClusterLocalSet ==
    /\ cluster.sets < MaxLocalSets
    /\ cluster' = [ClusterStore_set(cluster, "A", 0) EXCEPT !.sets = @ + 1]
    /\ lastOp' = [NoOp EXCEPT !.op = "local_set", !.node = "A"]
    /\ ClusterUnchanged

\* the worker of n takes the next update from its queue
ClusterDequeue(n) ==
    /\ cluster.busy[n] = NoSet
    /\ cluster.queue[n] # <<>>
    /\ cluster' = [cluster EXCEPT !.busy[n] = Queue_get(cluster.queue[n]).item,
                                  !.queue[n] = Queue_get(cluster.queue[n]).q]
    /\ lastOp' = [NoOp EXCEPT !.op = "dequeue", !.node = n]
    /\ ClusterUnchanged

\* the worker of n propagates the update it holds: to_dict may raise, which
\* drops the update; a peer of the down-set is skipped; a peer that cannot
\* be reached fails every attempt and enters the down-set; else the peer's
\* server handles POST /propagate, applies the set to its store and answers 200
ClusterSend(n) ==
    /\ cluster.busy[n] # NoSet
    /\ LET u == cluster.busy[n]
           m == PeerOf(n)
           done == [cluster EXCEPT !.busy[n] = NoSet]
       IN  IF ToDictRaises(u)
           THEN /\ cluster' = done
                /\ lastOp' = [NoOp EXCEPT !.op = "send", !.node = n, !.error = "RecursionError",
                                          !.count = u.nesting]
           ELSE IF cluster.down[n]
           THEN /\ cluster' = done
                /\ lastOp' = [NoOp EXCEPT !.op = "send", !.node = n, !.error = "skipped"]
           ELSE IF ~cluster.up[m]
           THEN /\ cluster' = [done EXCEPT !.down[n] = TRUE]
                /\ lastOp' = [NoOp EXCEPT !.op = "send", !.node = n, !.error = "exc"]
           ELSE IF IsLoop(ClientSourceHeader)
           THEN /\ cluster' = done
                /\ lastOp' = [NoOp EXCEPT !.op = "send", !.node = n, !.status = 200,
                                          !.skipped = TRUE]
           ELSE /\ cluster' = ClusterStore_set(done, m, KVStore_set_nesting(u.nesting))
                /\ lastOp' = [NoOp EXCEPT !.op = "send", !.node = n, !.status = 200,
                                          !.count = u.nesting]
    /\ ClusterUnchanged

\* the server of n goes away or comes back
ClusterReach(n) ==
    /\ cluster' = [cluster EXCEPT !.up[n] = ~@]
    /\ lastOp' = [NoOp EXCEPT !.op = "reach", !.node = n]
    /\ ClusterUnchanged

NextCluster ==
    \/ ClusterLocalSet
    \/ \E n \in ClusterNodes : ClusterDequeue(n)
    \/ \E n \in ClusterNodes : ClusterSend(n)
    \/ \E n \in ClusterNodes : ClusterReach(n)

\* each worker is a thread of its own that runs as long as the process does
SpecCluster ==
    /\ InitCluster
    /\ [][NextCluster]_vars
    /\ \A n \in ClusterNodes : WF_vars(ClusterDequeue(n)) /\ WF_vars(ClusterSend(n))

----------------------------------------------------------------------------
(* The life of a DistributedClient: the worker thread loops over test of    *)
(* self._running, get from the queue and processing; callers enqueue        *)
(* updates and call shutdown.  Time is counted where the code waits with a  *)
(* timeout: in the worker's get and in the join of shutdown.  A step that   *)
(* needs no waiting happens before time goes on.                             *)

MaxShutdowns == 2

\* self._update_queue.get(timeout=1)
GetTimeout == 1

\* self._update_thread.join(timeout=5)
JoinTimeout == 5

\* a worker that loops whatever self._running is
LoopTest_forever(running) == TRUE

\* while self._running:
LoopTest(running) == running

LifecycleConfigs ==
    { [kind |-> "LRU", capacity |-> 2, ttl_check |-> TRUE, default_ttl |-> 0,
       cleanup_interval |-> MaxTime + 1, max_size_bytes |-> NoLimit,
       auto_purge |-> FALSE, purge_interval |-> PurgeInterval,
       async_updates |-> a, max_queue_size |-> MaxQueueSize, retry_attempts |-> 1]
        : a \in BOOLEAN }

\* running: self._running; pc: where the worker thread is ("none" without
\* thread); waited: the time the worker has spent in get; caller: whether a
\* shutdown call is in its join; joined: the time spent in that join;
\* shutdowns: the shutdown calls that have returned
InitLifecycle ==
    /\ now = 0
    /\ cfg \in LifecycleConfigs
    /\ cache = EmptyCache
    /\ backend = EmptyBackend
    /\ last_purge = 0
    /\ tx = NoTx
    /\ accessOrder = <<>>
    /\ ref = EmptyRef
    /\ ttlUsed = FALSE
    /\ lastOp = NoOp
    /\ txn = NoTxn
    /\ threads = [t \in ThreadIds |-> IdleThread]
    /\ update_queue = <<>>
    /\ nodes_down = {}
    /\ worker = IdleWorker
    /\ peer = [n \in NodeSet |-> "200"]
    /\ hist = NoHist
    /\ cluster = NoCluster
    /\ lifecycle = [built |-> TRUE, running |-> TRUE,
                    pc |-> IF cfg.async_updates THEN "test" ELSE "none",
                    waited |-> 0, caller |-> "idle", joined |-> 0, shutdowns |-> 0]
    /\ codec = NoCodec

LifecycleUnchanged ==
    UNCHANGED <<now, cfg, cache, backend, last_purge, tx, accessOrder, ref, ttlUsed,
                txn, threads, nodes_down, worker, peer, hist, cluster, codec>>

\* a caller's propagate_* in async mode: the update goes on the queue unless
\* the queue is full
LifecycleEnqueue ==
    /\ cfg.async_updates
    /\ update_queue' = Queue_put(update_queue, [op |-> "set", id |-> 0]).q
    /\ lastOp' = [NoOp EXCEPT !.op = "enqueue", !.ok = ~Queue_put(update_queue, NoUpdate).full]
    /\ UNCHANGED lifecycle
    /\ LifecycleUnchanged

\* while self._running
WorkerLoopTest ==
    /\ lifecycle.pc = "test"
    /\ lifecycle' = [lifecycle EXCEPT
                        !.pc = IF LoopTest(lifecycle.running) THEN "get" ELSE "exited",
                        !.waited = 0]
    /\ lastOp' = [NoOp EXCEPT !.op = "loop_test"]
    /\ UNCHANGED update_queue
    /\ LifecycleUnchanged

\* update = self._update_queue.get(timeout=1) returns an update
WorkerGet ==
    /\ lifecycle.pc = "get"
    /\ update_queue # <<>>
    /\ update_queue' = Queue_get(update_queue).q
    /\ lifecycle' = [lifecycle EXCEPT !.pc = "process"]
    /\ lastOp' = [NoOp EXCEPT !.op = "dequeue", !.count = Queue_get(update_queue).item.id]
    /\ LifecycleUnchanged

\* the get raises queue.Empty after its timeout: continue
WorkerEmpty ==
    /\ lifecycle.pc = "get"
    /\ update_queue = <<>>
    /\ lifecycle.waited = GetTimeout
    /\ lifecycle' = [lifecycle EXCEPT !.pc = "test"]
    /\ lastOp' = [NoOp EXCEPT !.op = "empty"]
    /\ UNCHANGED update_queue
    /\ LifecycleUnchanged

\* the fan-out of the update ends, task_done
WorkerProcessed ==
    /\ lifecycle.pc = "process"
    /\ lifecycle' = [lifecycle EXCEPT !.pc = "test"]
    /\ lastOp' = [NoOp EXCEPT !.op = "processed"]
    /\ UNCHANGED update_queue
    /\ LifecycleUnchanged

\* shutdown up to its join: self._running = False, and the join in async
\* mode only; without join the call returns at once
ShutdownCall ==
    /\ lifecycle.caller = "idle"
    /\ lifecycle.shutdowns < MaxShutdowns
    /\ lifecycle' = [lifecycle EXCEPT
                        !.running = FALSE,
                        !.caller = IF cfg.async_updates THEN "joining" ELSE "idle",
                        !.joined = 0,
                        !.shutdowns = IF cfg.async_updates THEN @ ELSE @ + 1]
    /\ lastOp' = [NoOp EXCEPT !.op = IF cfg.async_updates THEN "shutdown"
                                     ELSE "shutdown_return"]
    /\ UNCHANGED update_queue
    /\ LifecycleUnchanged

\* the join returns: the thread has ended or the timeout is over
ShutdownReturn ==
    /\ lifecycle.caller = "joining"
    /\ lifecycle.pc = "exited" \/ lifecycle.joined = JoinTimeout
    /\ lifecycle' = [lifecycle EXCEPT !.caller = "idle", !.shutdowns = @ + 1]
    /\ lastOp' = [NoOp EXCEPT !.op = "shutdown_return", !.count = lifecycle.joined]
    /\ UNCHANGED update_queue
    /\ LifecycleUnchanged

\* what does not wait: the loop test, a get with an update in the queue or
\* with its timeout over, a join whose thread has ended or whose timeout is
\* over
Urgent ==
    \/ lifecycle.pc = "test"
    \/ lifecycle.pc = "get" /\ (update_queue # <<>> \/ lifecycle.waited = GetTimeout)
    \/ lifecycle.caller = "joining"
       /\ (lifecycle.pc = "exited" \/ lifecycle.joined = JoinTimeout)

\* a second passes for the worker in get and for the caller in join
LifecycleTick ==
    /\ ~Urgent
    /\ lifecycle.pc = "get" \/ lifecycle.caller = "joining"
    /\ lifecycle' = [lifecycle EXCEPT
                        !.waited = IF lifecycle.pc = "get" THEN @ + 1 ELSE @,
                        !.joined = IF lifecycle.caller = "joining" THEN @ + 1 ELSE @]
    /\ lastOp' = [NoOp EXCEPT !.op = "tick"]
    /\ UNCHANGED update_queue
    /\ LifecycleUnchanged

WorkerNext == WorkerLoopTest \/ WorkerGet \/ WorkerEmpty \/ WorkerProcessed

NextLifecycle ==
    \/ LifecycleEnqueue
    \/ WorkerLoopTest
    \/ WorkerGet
    \/ WorkerEmpty
    \/ WorkerProcessed
    \/ ShutdownCall
    \/ ShutdownReturn
    \/ LifecycleTick

\* the worker thread runs, the requests of a fan-out have timeouts, and time
\* goes on
SpecLifecycle ==
    /\ InitLifecycle
    /\ [][NextLifecycle]_vars
    /\ WF_vars(WorkerNext)
    /\ WF_vars(LifecycleTick)
    /\ WF_vars(ShutdownReturn)

----------------------------------------------------------------------------
(* The worker with the updates it is given, numbered in the order of the    *)
(* propagate_* calls, the nodes it sends them to, and a caller that waits   *)
(* for the queue.  The processing of an update may raise an error other     *)
(* than a RequestException, which no attempt catches.                        *)

\* a worker thread that an error ends
LoopAfterError_ends == "exited"

\* except Exception: the error is logged and the loop goes on
LoopAfterError == "test"

\* queue.Queue.join(self) takes no timeout: the call
\* self._update_queue.join(timeout=timeout) raises TypeError at once
Queue_join(timeout) == [raises |-> "TypeError", joined |-> FALSE]

\* wait_for_queue_empty: True in sync mode; else True when join returns and
\* False when it raises whatever error
DistributedClient_wait_for_queue_empty(timeout) ==
    IF ~cfg.async_updates THEN TRUE
    ELSE Queue_join(timeout).raises = "none"

\* accepted: the propagate_* calls made; raised: the processing of an update
\* has raised an error
InitWorker ==
    /\ now = 0
    /\ cfg \in LifecycleConfigs
    /\ cache = EmptyCache
    /\ backend = EmptyBackend
    /\ last_purge = 0
    /\ tx = NoTx
    /\ accessOrder = <<>>
    /\ ref = EmptyRef
    /\ ttlUsed = FALSE
    /\ lastOp = NoOp
    /\ txn = NoTxn
    /\ threads = [t \in ThreadIds |-> IdleThread]
    /\ update_queue = <<>>
    /\ nodes_down = {}
    /\ worker = IdleWorker
    /\ peer = [n \in NodeSet |-> "200"]
    /\ hist = NoHist
    /\ cluster = NoCluster
    /\ lifecycle = [built |-> TRUE, running |-> TRUE,
                    pc |-> IF cfg.async_updates THEN "test" ELSE "none",
                    waited |-> 0, caller |-> "idle", joined |-> 0, shutdowns |-> 0,
                    accepted |-> 0, raised |-> FALSE]
    /\ codec = NoCodec

WorkerUnchanged ==
    UNCHANGED <<now, cfg, cache, backend, last_purge, tx, accessOrder, ref, ttlUsed,
                txn, threads, worker, hist, cluster, codec>>

\* a caller's propagate_set in async mode: the update goes on the queue
\* unless the queue is full
WorkerAccept ==
    /\ cfg.async_updates
    /\ lifecycle.accepted < MaxUpdates
    /\ \E r \in {Queue_put(update_queue, [op |-> "set", id |-> lifecycle.accepted + 1])} :
          /\ update_queue' = r.q
          /\ lastOp' = [NoOp EXCEPT !.op = "accept", !.ok = ~r.full,
                                    !.count = lifecycle.accepted + 1]
    /\ lifecycle' = [lifecycle EXCEPT !.accepted = @ + 1]
    /\ UNCHANGED <<nodes_down, peer>>
    /\ WorkerUnchanged

\* the fan-out of the update the worker holds runs to its end, task_done
WorkerFanOut ==
    /\ lifecycle.pc = "process"
    /\ \E r \in {RunToEnd(StartRun(NoUpdate), nodes_down, FALSE, {})} :
          /\ nodes_down' = r.down
          /\ lastOp' = [NoOp EXCEPT !.op = "fan_out", !.ok = r.w.success,
                                    !.contacted = r.contacted]
    /\ lifecycle' = [lifecycle EXCEPT !.pc = "test"]
    /\ UNCHANGED <<update_queue, peer>>
    /\ WorkerUnchanged

\* the processing of the update raises an error before any request is sent:
\* task_done is not reached
WorkerRaises ==
    /\ lifecycle.pc = "process"
    /\ lifecycle' = [lifecycle EXCEPT !.pc = LoopAfterError, !.raised = TRUE]
    /\ lastOp' = [NoOp EXCEPT !.op = "raised", !.error = "Exception"]
    /\ UNCHANGED <<update_queue, nodes_down, peer>>
    /\ WorkerUnchanged

\* a node stops answering or answers again
WorkerPeerChange(n, r) ==
    /\ peer[n] # r
    /\ peer' = [peer EXCEPT ![n] = r]
    /\ lastOp' = [NoOp EXCEPT !.op = "peer_change"]
    /\ UNCHANGED <<update_queue, nodes_down, lifecycle>>
    /\ WorkerUnchanged

\* a caller's wait_for_queue_empty(timeout); count: the time the call took
WaitForQueueEmpty(timeout) ==
    /\ lastOp' = [NoOp EXCEPT !.op = "wait_for_queue_empty",
                              !.ok = DistributedClient_wait_for_queue_empty(timeout),
                              !.ttl = timeout, !.count = 0]
    /\ UNCHANGED <<update_queue, nodes_down, peer, lifecycle>>
    /\ WorkerUnchanged

\* the steps of the worker thread
WorkerThread == WorkerLoopTest \/ WorkerGet \/ WorkerEmpty \/ WorkerFanOut \/ WorkerRaises

NextWorker ==
    \/ WorkerAccept
    \/ WorkerLoopTest
    \/ WorkerGet
    \/ WorkerEmpty
    \/ WorkerFanOut
    \/ WorkerRaises
    \/ \E r \in {"200", "exc"} : WorkerPeerChange(Nodes[1], r)
    \/ WaitForQueueEmpty(JoinTimeout)
    \/ ShutdownCall
    \/ ShutdownReturn
    \/ LifecycleTick

\* the worker thread runs, time goes on and a join returns
SpecWorker ==
    /\ InitWorker
    /\ [][NextWorker]_vars
    /\ WF_vars(WorkerThread)
    /\ WF_vars(LifecycleTick)
    /\ WF_vars(ShutdownReturn)

----------------------------------------------------------------------------
(* Value.to_dict and Value.from_dict: core/value.py.  A string is the        *)
(* sequence of its characters where the code takes it apart (hex digits,    *)
(* JSON text as the sequence of its tokens); bytes are sequences of numbers *)
(* below 256.  The payload of a JsonValue is JSON data: an object with       *)
(* string keys or an array, here of numbers; the payload of a PickleValue   *)
(* is a tuple of small numbers.                                              *)

HexDigits == <<"0", "1", "2", "3", "4", "5", "6", "7", "8", "9",
               "a", "b", "c", "d", "e", "f">>

\* bytes.hex()
RECURSIVE BytesHex(_)
BytesHex(b) ==
    IF b = <<>> THEN <<>>
    ELSE <<HexDigits[(Head(b) \div 16) + 1], HexDigits[(Head(b) % 16) + 1]>>
         \o BytesHex(Tail(b))

HexValue(c) == (CHOOSE i \in DOMAIN HexDigits : HexDigits[i] = c) - 1

\* bytes.fromhex()
RECURSIVE BytesFromHex(_)
BytesFromHex(h) ==
    IF h = <<>> THEN <<>>
    ELSE <<HexValue(h[1]) * 16 + HexValue(h[2])>> \o BytesFromHex(SubSeq(h, 3, Len(h)))

JsonNumbers == 0 .. 9
JsonStrings == {"x", "y"}

\* the text of a number and of a string in JSON
NumberText(n) == HexDigits[n + 1]
StringText(str) == "\"" \o str \o "\""

\* json.dumps: an item of JSON data is a key (none in an array) and a number
RECURSIVE DumpItems(_, _)
DumpItems(items, kind) ==
    IF items = <<>> THEN <<>>
    ELSE LET h == Head(items)
             one == IF kind = "dict"
                    THEN <<StringText(h[1]), ":", NumberText(h[2])>>
                    ELSE <<NumberText(h[2])>>
         IN  IF Len(items) = 1 THEN one
             ELSE one \o <<",">> \o DumpItems(Tail(items), kind)

json_dumps(data) ==
    IF data.kind = "dict"
    THEN <<"{">> \o DumpItems(data.items, "dict") \o <<"}">>
    ELSE <<"[">> \o DumpItems(data.items, "list") \o <<"]">>

ParseNumber(tok) == CHOOSE n \in JsonNumbers : NumberText(n) = tok
ParseString(tok) == CHOOSE str \in JsonStrings : StringText(str) = tok

\* json.loads
RECURSIVE ParseItems(_, _)
ParseItems(toks, kind) ==
    IF toks = <<>> THEN <<>>
    ELSE IF kind = "dict"
    THEN <<<<ParseString(toks[1]), ParseNumber(toks[3])>>>>
         \o ParseItems(SubSeq(toks, 5, Len(toks)), kind)
    ELSE <<<<"", ParseNumber(toks[1])>>>>
         \o ParseItems(SubSeq(toks, 3, Len(toks)), kind)

json_loads(toks) ==
    LET kind == IF toks[1] = "{" THEN "dict" ELSE "list" IN
    [kind |-> kind, items |-> ParseItems(SubSeq(toks, 2, Len(toks) - 1), kind)]

\* pickle.dumps of a tuple of numbers below 256: PROTO 4, then EMPTY_TUPLE
\* and STOP, or a FRAME with its length in 8 bytes, a BININT1 for each number,
\* TUPLE1..TUPLE3, MEMOIZE and STOP
RECURSIVE PickleItems(_)
PickleItems(obj) ==
    IF obj = <<>> THEN <<>> ELSE <<75, Head(obj)>> \o PickleItems(Tail(obj))

pickle_dumps(obj) ==
    IF obj = <<>> THEN <<128, 4, 41, 46>>
    ELSE <<128, 4, 149, 2 * Len(obj) + 3, 0, 0, 0, 0, 0, 0, 0>>
         \o PickleItems(obj) \o <<132 + Len(obj), 148, 46>>

\* pickle.loads: the stack machine over the opcodes
RECURSIVE Unpickle(_, _, _)
Unpickle(b, i, stack) ==
    IF b[i] = 46 THEN stack
    ELSE IF b[i] = 128 THEN Unpickle(b, i + 2, stack)
    ELSE IF b[i] = 149 THEN Unpickle(b, i + 9, stack)
    ELSE IF b[i] = 148 THEN Unpickle(b, i + 1, stack)
    ELSE IF b[i] = 75 THEN Unpickle(b, i + 2, Append(stack, b[i + 1]))
    ELSE IF b[i] = 41 THEN Unpickle(b, i + 1, <<>>)
    ELSE Unpickle(b, i + 1, SubSeq(stack, Len(stack) - (b[i] - 132) + 1, Len(stack)))

pickle_loads(b) == Unpickle(b, 1, <<>>)

\* _serialize_value of each class
Value_serialize(type, payload) ==
    IF type = "BytesValue" THEN BytesHex(payload)
    ELSE IF type = "JsonValue" THEN json_dumps(payload)
    ELSE IF type = "PickleValue" THEN BytesHex(pickle_dumps(payload))
    ELSE payload

\* _deserialize_value of each class
Value_deserialize(cls, serialized) ==
    IF cls = "BytesValue" THEN BytesFromHex(serialized)
    ELSE IF cls = "JsonValue" THEN json_loads(serialized)
    ELSE IF cls = "PickleValue" THEN pickle_loads(BytesFromHex(serialized))
    ELSE serialized

NoMetadata == <<>>

\* Value.__init__
Value_init(cls, payload, ttl, metadata) ==
    [type |-> cls, payload |-> payload, created_at |-> now, ttl |-> ttl,
     metadata |-> metadata]

\* Value.to_dict
Value_to_dict(v) ==
    [value |-> Value_serialize(v.type, v.payload), type |-> v.type,
     created_at |-> v.created_at, ttl |-> v.ttl, metadata |-> v.metadata]

\* a from_dict that leaves the instance as cls(value) built it
Value_from_dict_as_built(cls, data) ==
    IF data.type # cls
    THEN [raised |-> TRUE, out |-> [type |-> "None"]]
    ELSE [raised |-> FALSE,
          out |-> Value_init(cls, Value_deserialize(cls, data.value), NoTtl, NoMetadata)]

\* Value.from_dict
Value_from_dict(cls, data) ==
    IF data.type # cls
    THEN [raised |-> TRUE, out |-> [type |-> "None"]]
    ELSE [raised |-> FALSE,
          out |-> [Value_init(cls, Value_deserialize(cls, data.value), NoTtl, NoMetadata)
                      EXCEPT !.created_at = data.created_at,
                             !.ttl = data.ttl,
                             !.metadata = data.metadata]]

\* the payloads of each class
PayloadsOf(type) ==
    IF type = "StringValue" THEN {"a", "bbb"}
    ELSE IF type = "IntValue" THEN {0, 7}
    ELSE IF type = "FloatValue" THEN {<<15, 1>>, <<314, 2>>}
    ELSE IF type = "BytesValue" THEN {<<>>, <<0, 171>>, <<255>>}
    ELSE IF type = "JsonValue"
    THEN {[kind |-> "dict", items |-> <<>>],
          [kind |-> "dict", items |-> <<<<"x", 1>>, <<"y", 9>>>>],
          [kind |-> "list", items |-> <<>>],
          [kind |-> "list", items |-> <<<<"", 3>>, <<"", 0>>>>]}
    ELSE {<<>>, <<7>>, <<0, 255>>}

Metadatas == {NoMetadata, <<<<"m", "x">>>>}

NoDict == [type |-> "None"]

\* v: the value; d: its dictionary; out, raised: what from_dict gave
CodecOf(v) == [built |-> TRUE, phase |-> "value", v |-> v, d |-> NoDict,
               out |-> [type |-> "None"], raised |-> FALSE]

InitCodec ==
    /\ now = 0
    /\ cfg = ClusterConfig
    /\ cache = EmptyCache
    /\ backend = EmptyBackend
    /\ last_purge = 0
    /\ tx = NoTx
    /\ accessOrder = <<>>
    /\ ref = EmptyRef
    /\ ttlUsed = FALSE
    /\ lastOp = NoOp
    /\ txn = NoTxn
    /\ threads = [t \in ThreadIds |-> IdleThread]
    /\ update_queue = <<>>
    /\ nodes_down = {}
    /\ worker = IdleWorker
    /\ peer = [n \in NodeSet |-> "200"]
    /\ hist = NoHist
    /\ cluster = NoCluster
    /\ lifecycle = NoLifecycle
    /\ \E type \in TypeTags :
          codec \in {CodecOf(Value_init(type, p, ttl, m)) :
                        p \in PayloadsOf(type), ttl \in Ttls, m \in Metadatas}

CodecUnchanged ==
    UNCHANGED <<cfg, cache, backend, last_purge, tx, accessOrder, ref, ttlUsed,
                txn, threads, update_queue, nodes_down, worker, peer, hist, cluster,
                lifecycle>>

CodecTick ==
    /\ now < MaxTime
    /\ now' = now + 1
    /\ lastOp' = [NoOp EXCEPT !.op = "tick"]
    /\ UNCHANGED codec
    /\ CodecUnchanged

\* a new value is built
CodecNew(type, ttl, m) ==
    /\ \E p \in PayloadsOf(type) : codec' = CodecOf(Value_init(type, p, ttl, m))
    /\ lastOp' = [NoOp EXCEPT !.op = "new"]
    /\ UNCHANGED now
    /\ CodecUnchanged

ToDict ==
    /\ codec.phase = "value"
    /\ codec' = [codec EXCEPT !.phase = "dict", !.d = Value_to_dict(codec.v)]
    /\ lastOp' = [NoOp EXCEPT !.op = "to_dict"]
    /\ UNCHANGED now
    /\ CodecUnchanged

FromDict(cls) ==
    /\ codec.phase = "dict"
    /\ \E r \in {Value_from_dict(cls, codec.d)} :
          codec' = [codec EXCEPT !.phase = "back", !.out = r.out, !.raised = r.raised]
    /\ lastOp' = [NoOp EXCEPT !.op = "from_dict", !.node = cls]
    /\ UNCHANGED now
    /\ CodecUnchanged

NextCodec ==
    \/ CodecTick
    \/ \E type \in TypeTags, ttl \in Ttls, m \in Metadatas : CodecNew(type, ttl, m)
    \/ ToDict
    \/ \E cls \in TypeTags : FromDict(cls)

SpecCodec == InitCodec /\ [][NextCodec]_vars

----------------------------------------------------------------------------
(* Key: core/key.py.  A string is the sequence of its characters; a raw     *)
(* value is a str, an int or bytes.  The object under conversion is a Key,  *)
(* its string, the Key from_string builds from the string and a second Key  *)
(* to compare with.                                                          *)

KeyAlphabet == <<"a", ":", "5", "3">>

\* the strings of at most two characters over "a" and ":"
KeyStrings ==
    {<<>>} \cup {<<c>> : c \in {"a", ":"}} \cup {<<c, d>> : c \in {"a", ":"}, d \in {"a", ":"}}

RawStr(chars) == [kind |-> "str", chars |-> chars, num |-> 0, bytes |-> <<>>]
RawInt(n) == [kind |-> "int", chars |-> <<>>, num |-> n, bytes |-> <<>>]
RawBytes(b) == [kind |-> "bytes", chars |-> <<>>, num |-> 0, bytes |-> b]

\* "a", ":a", ..., 5 and b":"
RawValues == {RawStr(c) : c \in KeyStrings} \cup {RawInt(5), RawBytes(<<58>>)}

NoNamespace == [given |-> FALSE, chars |-> <<>>]

Namespaces == {NoNamespace} \cup {[given |-> TRUE, chars |-> c] : c \in KeyStrings}

\* Key._normalize_value
Key_normalize_value(raw) ==
    IF raw.kind = "bytes" THEN BytesHex(raw.bytes)
    ELSE IF raw.kind = "int" THEN <<HexDigits[raw.num + 1]>>
    ELSE raw.chars

\* hash() of a str: a number computed from the characters
RECURSIVE StrHash(_)
StrHash(str) ==
    IF str = <<>> THEN 0
    ELSE (31 * StrHash(SubSeq(str, 1, Len(str) - 1))
          + (CHOOSE i \in DOMAIN KeyAlphabet : KeyAlphabet[i] = str[Len(str)])) % 61

\* Key.__init__: a namespace that is None or empty is left out of the string
Key_init(raw, namespace) ==
    [value |-> raw, namespace |-> namespace,
     key_str |-> IF namespace.given /\ namespace.chars # <<>>
                 THEN namespace.chars \o <<":">> \o Key_normalize_value(raw)
                 ELSE Key_normalize_value(raw)]

\* Key.__str__
Key_str(k) == k.key_str

\* Key.__hash__
Key_hash(k) == StrHash(k.key_str)

\* Key.__eq__
Key_eq(k1, k2) == k1.key_str = k2.key_str

HasColon(str) == \E i \in DOMAIN str : str[i] = ":"

FirstColon(str) == CHOOSE i \in DOMAIN str : str[i] = ":" /\ \A j \in 1 .. i - 1 : str[j] # ":"

\* Key.from_string: the string is split at its first colon
Key_from_string(str) ==
    IF HasColon(str)
    THEN Key_init(RawStr(SubSeq(str, FirstColon(str) + 1, Len(str))),
                  [given |-> TRUE, chars |-> SubSeq(str, 1, FirstColon(str) - 1)])
    ELSE Key_init(RawStr(str), NoNamespace)

AllKeys == {Key_init(raw, ns) : raw \in RawValues, ns \in Namespaces}

\* k: the key; other: the key it is compared with; back: the key built from
\* str(k)
KeyStateOf(k) == [built |-> TRUE, phase |-> "key", k |-> k, other |-> k, back |-> k]

InitKey ==
    /\ now = 0
    /\ cfg = ClusterConfig
    /\ cache = EmptyCache
    /\ backend = EmptyBackend
    /\ last_purge = 0
    /\ tx = NoTx
    /\ accessOrder = <<>>
    /\ ref = EmptyRef
    /\ ttlUsed = FALSE
    /\ lastOp = NoOp
    /\ txn = NoTxn
    /\ threads = [t \in ThreadIds |-> IdleThread]
    /\ update_queue = <<>>
    /\ nodes_down = {}
    /\ worker = IdleWorker
    /\ peer = [n \in NodeSet |-> "200"]
    /\ hist = NoHist
    /\ cluster = NoCluster
    /\ lifecycle = NoLifecycle
    /\ codec \in {KeyStateOf(k) : k \in AllKeys}

KeyUnchanged ==
    UNCHANGED <<now, cfg, cache, backend, last_purge, tx, accessOrder, ref, ttlUsed,
                txn, threads, update_queue, nodes_down, worker, peer, hist, cluster,
                lifecycle>>

\* k == other and hash(k), hash(other)
KeyCompare(other) ==
    /\ codec' = [codec EXCEPT !.phase = "compared", !.other = other]
    /\ lastOp' = [NoOp EXCEPT !.op = "eq", !.ok = Key_eq(codec.k, other),
                              !.count = Key_hash(codec.k), !.status = Key_hash(other)]
    /\ KeyUnchanged

\* Key.from_string(str(k)) and its comparison with k
KeyFromString ==
    /\ \E r \in {Key_from_string(Key_str(codec.k))} :
          /\ codec' = [codec EXCEPT !.phase = "back", !.back = r]
          /\ lastOp' = [NoOp EXCEPT !.op = "from_string", !.ok = Key_eq(r, codec.k)]
    /\ KeyUnchanged

\* another key is built
KeyNew(k) ==
    /\ codec' = KeyStateOf(k)
    /\ lastOp' = [NoOp EXCEPT !.op = "new"]
    /\ KeyUnchanged

NextKey ==
    \/ \E other \in AllKeys : KeyCompare(other)
    \/ KeyFromString
    \/ \E k \in AllKeys : KeyNew(k)

SpecKey == InitKey /\ [][NextKey]_vars

----------------------------------------------------------------------------
(* The store with a DistributedClient attached, called by two threads.  A   *)
(* thread takes one call of the backend, the cache or the client per step.  *)
(* The client runs in async mode with a queue that takes every update; its  *)
(* worker delivers the updates in queue order to one reachable peer.        *)

AttKeys == {"k1", "k2"}

\* the calls of the store's methods the two threads make in all
MaxCalls == 2

\* what each thread writes
PayloadOf == [t \in ThreadIds |-> IF t = "t1" THEN "a" ELSE "bbb"]

\* op: the method of the store the thread was told to call; call: the set,
\* delete or clear it is in, which may be the delete a read or a purge issues;
\* done: what that call has written; result: what backend.delete returned;
\* todo: the keys purge_expired has yet to look at
AttIdle ==
    [pc |-> "idle", op |-> "none", call |-> "none", key |-> "k1", payload |-> "",
     ttl |-> NoTtl, value |-> NoValue, done |-> {}, result |-> FALSE, todo |-> <<>>]

\* calls: the calls of the store's methods; sets_only: no delete and no clear
\* was handed to the client; peer_store: the payload the peer holds per key
AttHist == [calls |-> 0, sets_only |-> TRUE, peer_store |-> [k \in AttKeys |-> ""]]

AttConfig == [ClusterConfig EXCEPT !.max_queue_size = 2 * MaxCalls]

InitAttached ==
    /\ now = 0
    /\ cfg = AttConfig
    /\ cache = EmptyCache
    /\ backend = EmptyBackend
    /\ last_purge = 0
    /\ tx = NoTx
    /\ accessOrder = <<>>
    /\ ref = EmptyRef
    /\ ttlUsed = FALSE
    /\ lastOp = NoOp
    /\ txn = NoTxn
    /\ threads = [t \in ThreadIds |-> AttIdle]
    /\ update_queue = <<>>
    /\ nodes_down = {}
    /\ worker = IdleWorker
    /\ peer = [n \in NodeSet |-> "200"]
    /\ hist = AttHist
    /\ cluster = NoCluster
    /\ lifecycle = NoLifecycle
    /\ codec = NoCodec

AttUnchanged ==
    UNCHANGED <<now, cfg, tx, accessOrder, ref, ttlUsed, txn, nodes_down, worker,
                peer, moreVars>>

\* the thread begins a set, delete or clear of the store
Begin(th, t, call, k) ==
    [th EXCEPT !.call = call, !.key = k, !.done = {}, !.result = FALSE,
               !.pc = call \o "_backend"]

\* a delete that tells the client only of keys it removed
DeletePropagates_if_deleted(result) == result

\* KVStore.delete: if self._distributed, whatever backend.delete returned
DeletePropagates(result) == TRUE

\* where the thread goes on when its set, delete or clear has returned
AfterCall(th) ==
    IF th.op = "purge_expired"
    THEN [th EXCEPT !.pc = "purge_loop", !.call = "none", !.todo = Tail(@)]
    ELSE AttIdle

\* a thread calls set, get, delete, clear or purge_expired of the store
AttCall(t, op, k, ttl) ==
    /\ threads[t].pc = "idle"
    /\ hist.calls < MaxCalls
    /\ threads' = [threads EXCEPT ![t] =
          IF op \in {"set", "delete", "clear"}
          THEN Begin([AttIdle EXCEPT !.op = op, !.payload = PayloadOf[t], !.ttl = ttl],
                     t, op, k)
          ELSE [AttIdle EXCEPT !.op = op, !.key = k,
                               !.pc = IF op = "get" THEN "get_cache" ELSE "purge_keys"]]
    /\ hist' = [hist EXCEPT !.calls = @ + 1]
    /\ lastOp' = [NoOp EXCEPT !.op = "att_call", !.operation = op, !.key = k]
    /\ UNCHANGED <<cache, backend, last_purge, update_queue>>
    /\ AttUnchanged

\* set: the Value is built and the backend stores it under its lock
AttSetBackend(t) ==
    LET v == Value(threads[t].payload, now, threads[t].ttl) IN
    /\ threads[t].pc = "set_backend"
    /\ backend' = [backend EXCEPT ![threads[t].key] = v]
    /\ threads' = [threads EXCEPT ![t].pc = "set_callback", ![t].value = v,
                                  ![t].done = @ \cup {"backend"}]
    /\ lastOp' = [NoOp EXCEPT !.op = "att_set_backend", !.node = t]
    /\ UNCHANGED <<cache, last_purge, update_queue, hist>>
    /\ AttUnchanged

\* set: the backend's callback writes the cache
AttSetCallback(t) ==
    /\ threads[t].pc = "set_callback"
    /\ cache' = Cache_set(cache, threads[t].key, threads[t].value)
    /\ threads' = [threads EXCEPT ![t].pc = "set_cache"]
    /\ lastOp' = [NoOp EXCEPT !.op = "att_set_callback", !.node = t]
    /\ UNCHANGED <<backend, last_purge, update_queue, hist>>
    /\ AttUnchanged

\* set: the store writes the cache
AttSetCache(t) ==
    /\ threads[t].pc = "set_cache"
    /\ cache' = Cache_set(cache, threads[t].key, threads[t].value)
    /\ threads' = [threads EXCEPT ![t].pc = "propagate", ![t].done = @ \cup {"cache"}]
    /\ lastOp' = [NoOp EXCEPT !.op = "att_set_cache", !.node = t]
    /\ UNCHANGED <<backend, last_purge, update_queue, hist>>
    /\ AttUnchanged

\* get: the cache lookup; an expired hit is deleted
AttGetCache(t) ==
    LET g == Cache_get(cache, threads[t].key)
        expired == g.value # NoValue /\ is_expired(g.value)
    IN  /\ threads[t].pc = "get_cache"
        /\ cache' = g.c
        /\ threads' = [threads EXCEPT
                         ![t] = IF g.value = NoValue
                                THEN [@ EXCEPT !.pc = "get_backend"]
                                ELSE IF expired
                                THEN Begin(@, t, "delete", @.key)
                                ELSE AttIdle]
        /\ lastOp' = [NoOp EXCEPT !.op = "att_get_cache", !.node = t]
        /\ UNCHANGED <<backend, last_purge, update_queue, hist>>
        /\ AttUnchanged

\* get: the backend lookup after a cache miss
AttGetBackend(t) ==
    LET v == MemoryBackend_get(backend, threads[t].key) IN
    /\ threads[t].pc = "get_backend"
    /\ threads' = [threads EXCEPT
                     ![t] = IF v = NoValue THEN AttIdle
                            ELSE [@ EXCEPT !.pc = "get_refill", !.value = v]]
    /\ lastOp' = [NoOp EXCEPT !.op = "att_get_backend", !.node = t]
    /\ UNCHANGED <<cache, backend, last_purge, update_queue, hist>>
    /\ AttUnchanged

\* get: the value read from the backend is put into the cache; an expired
\* one is then deleted
AttGetRefill(t) ==
    LET expired == is_expired(threads[t].value) IN
    /\ threads[t].pc = "get_refill"
    /\ cache' = Cache_set(cache, threads[t].key, threads[t].value)
    /\ threads' = [threads EXCEPT
                     ![t] = IF expired THEN Begin(@, t, "delete", @.key) ELSE AttIdle]
    /\ lastOp' = [NoOp EXCEPT !.op = "att_get_refill", !.node = t]
    /\ UNCHANGED <<backend, last_purge, update_queue, hist>>
    /\ AttUnchanged

\* delete: the backend removes the key under its lock
AttDeleteBackend(t) ==
    LET k == threads[t].key IN
    /\ threads[t].pc = "delete_backend"
    /\ backend' = [backend EXCEPT ![k] = NoValue]
    /\ threads' = [threads EXCEPT
                     ![t].pc = IF backend[k] # NoValue THEN "delete_callback"
                               ELSE "delete_cache",
                     ![t].result = (backend[k] # NoValue),
                     ![t].done = @ \cup {"backend"}]
    /\ lastOp' = [NoOp EXCEPT !.op = "att_delete_backend", !.node = t]
    /\ UNCHANGED <<cache, last_purge, update_queue, hist>>
    /\ AttUnchanged

\* delete: the backend's callback, run when the key was there
AttDeleteCallback(t) ==
    /\ threads[t].pc = "delete_callback"
    /\ cache' = Cache_delete(cache, threads[t].key).c
    /\ threads' = [threads EXCEPT ![t].pc = "delete_cache"]
    /\ lastOp' = [NoOp EXCEPT !.op = "att_delete_callback", !.node = t]
    /\ UNCHANGED <<backend, last_purge, update_queue, hist>>
    /\ AttUnchanged

\* delete: the store removes the key from the cache
AttDeleteCache(t) ==
    /\ threads[t].pc = "delete_cache"
    /\ cache' = Cache_delete(cache, threads[t].key).c
    /\ threads' = [threads EXCEPT
                     ![t] = IF DeletePropagates(@.result)
                            THEN [@ EXCEPT !.pc = "propagate", !.done = @ \cup {"cache"}]
                            ELSE AfterCall(@)]
    /\ lastOp' = [NoOp EXCEPT !.op = "att_delete_cache", !.node = t]
    /\ UNCHANGED <<backend, last_purge, update_queue, hist>>
    /\ AttUnchanged

\* clear: the backend is emptied under its lock
AttClearBackend(t) ==
    /\ threads[t].pc = "clear_backend"
    /\ backend' = MemoryBackend_clear(St).backend
    /\ threads' = [threads EXCEPT ![t].pc = "clear_cache", ![t].done = @ \cup {"backend"}]
    /\ lastOp' = [NoOp EXCEPT !.op = "att_clear_backend", !.node = t]
    /\ UNCHANGED <<cache, last_purge, update_queue, hist>>
    /\ AttUnchanged

\* clear: the cache is emptied
AttClearCache(t) ==
    /\ threads[t].pc = "clear_cache"
    /\ cache' = Cache_clear(cache)
    /\ threads' = [threads EXCEPT ![t].pc = "propagate", ![t].done = @ \cup {"cache"}]
    /\ lastOp' = [NoOp EXCEPT !.op = "att_clear_cache", !.node = t]
    /\ UNCHANGED <<backend, last_purge, update_queue, hist>>
    /\ AttUnchanged

\* the update a propagate_set, propagate_delete or propagate_clear call puts
\* into the queue
UpdateOf(th, t) ==
    [op |-> th.call, key |-> IF th.call = "clear" THEN "" ELSE th.key,
     payload |-> IF th.call = "set" THEN th.value.payload ELSE "", by |-> t]

\* set, delete, clear: self._distributed.propagate_*; the call returns
AttPropagate(t) ==
    /\ threads[t].pc = "propagate"
    /\ \E r \in {DistributedClient_propagate(update_queue, nodes_down,
                                             UpdateOf(threads[t], t))} :
          /\ update_queue' = r.q
          /\ lastOp' = [NoOp EXCEPT !.op = "att_propagate", !.node = t, !.ok = r.ok,
                                    !.operation = threads[t].call,
                                    !.key = threads[t].key]
    /\ hist' = [hist EXCEPT !.sets_only = @ /\ threads[t].call = "set"]
    /\ threads' = [threads EXCEPT ![t] = AfterCall(@)]
    /\ UNCHANGED <<cache, backend, last_purge>>
    /\ AttUnchanged

\* purge_expired: keys = self._backend.keys()
AttPurgeKeys(t) ==
    /\ threads[t].pc = "purge_keys"
    /\ threads' = [threads EXCEPT
                     ![t].pc = "purge_loop",
                     ![t].todo = SelectSeq(<<"k1", "k2">>,
                                           LAMBDA k : k \in MemoryBackend_keys(backend))]
    /\ lastOp' = [NoOp EXCEPT !.op = "att_purge_keys", !.node = t]
    /\ UNCHANGED <<cache, backend, last_purge, update_queue, hist>>
    /\ AttUnchanged

\* purge_expired: the next key is read from the backend and deleted when its
\* value is expired; after the last key the time of the purge is kept
AttPurgeLoop(t) ==
    /\ threads[t].pc = "purge_loop"
    /\ IF threads[t].todo = <<>>
       THEN /\ threads' = [threads EXCEPT ![t] = AttIdle]
            /\ last_purge' = now
       ELSE LET k == Head(threads[t].todo)
                v == MemoryBackend_get(backend, k)
                expired == v # NoValue /\ is_expired(v)
            IN  /\ threads' = [threads EXCEPT
                                 ![t] = IF expired THEN Begin(@, t, "delete", k)
                                        ELSE [@ EXCEPT !.todo = Tail(@)]]
                /\ last_purge' = last_purge
    /\ lastOp' = [NoOp EXCEPT !.op = "att_purge_loop", !.node = t]
    /\ UNCHANGED <<cache, backend, update_queue, hist>>
    /\ AttUnchanged

\* the peer's handler of /propagate applies the update to its store
PeerApplies(store, update) ==
    IF update.op = "set" THEN [store EXCEPT ![update.key] = update.payload]
    ELSE IF update.op = "delete" THEN [store EXCEPT ![update.key] = ""]
    ELSE [k \in DOMAIN store |-> ""]

\* the worker takes the next update from the queue and sends it to the peer,
\* which answers 200
AttDeliver ==
    /\ update_queue # <<>>
    /\ \E g \in {Queue_get(update_queue)} :
          /\ update_queue' = g.q
          /\ hist' = [hist EXCEPT !.peer_store = PeerApplies(@, g.item)]
    /\ lastOp' = [NoOp EXCEPT !.op = "att_deliver"]
    /\ UNCHANGED <<cache, backend, last_purge, threads>>
    /\ AttUnchanged

NextAttached ==
    \/ Tick
    \/ \E t \in ThreadIds : AttCall(t, "set", "k1", NoTtl)
    \/ AttCall("t1", "set", "k2", 1)
    \/ AttCall("t2", "get", "k2", NoTtl)
    \/ \E k \in AttKeys : AttCall("t1", "delete", k, NoTtl)
    \/ AttCall("t2", "clear", "k1", NoTtl)
    \/ AttCall("t2", "purge_expired", "k1", NoTtl)
    \/ \E t \in ThreadIds : AttSetBackend(t)
    \/ \E t \in ThreadIds : AttSetCallback(t)
    \/ \E t \in ThreadIds : AttSetCache(t)
    \/ \E t \in ThreadIds : AttGetCache(t)
    \/ \E t \in ThreadIds : AttGetBackend(t)
    \/ \E t \in ThreadIds : AttGetRefill(t)
    \/ \E t \in ThreadIds : AttDeleteBackend(t)
    \/ \E t \in ThreadIds : AttDeleteCallback(t)
    \/ \E t \in ThreadIds : AttDeleteCache(t)
    \/ \E t \in ThreadIds : AttClearBackend(t)
    \/ \E t \in ThreadIds : AttClearCache(t)
    \/ \E t \in ThreadIds : AttPropagate(t)
    \/ \E t \in ThreadIds : AttPurgeKeys(t)
    \/ \E t \in ThreadIds : AttPurgeLoop(t)
    \/ AttDeliver

SpecAttached == InitAttached /\ [][NextAttached]_vars

----------------------------------------------------------------------------
(* Properties of the cache strategies *)

\* the call that led to the next state is a cache set of a key the cache did
\* not hold, into a cache that held as many entries as its capacity
SetOfNewKeyIntoFullCache ==
    /\ lastOp'.op = "set"
    /\ lastOp'.key \notin KeysOf(cache.entries)
    /\ Len(cache.entries) = cfg.capacity

\* C6: LRUCache: a set of a new key into a cache that holds C entries evicts
\* exactly one entry, the one whose last access (a get hit or a set) is the
\* oldest among the entries held, and removes no other entry.
C6_LRUEvictsLeastRecentlyAccessed ==
    [][ (cfg.kind = "LRU" /\ SetOfNewKeyIntoFullCache)
        => /\ Len(accessOrder) = cfg.capacity
           /\ KeysOf(cache'.entries) =
                (KeysOf(cache.entries) \ {Head(accessOrder)}) \cup {lastOp'.key}
           /\ Len(cache'.entries) = cfg.capacity ]_vars

\* an LRU set has evicted an entry to make room for a new key
C6_Witness ==
    /\ cfg.kind = "LRU"
    /\ lastOp.op = "set"
    /\ ~lastOp.ok
    /\ Cardinality(lastOp.removed) = 1
    /\ Len(cache.entries) = 2

\* entry i expires soonest among the entries: no held entry with an expiry has
\* a smaller one, and an entry without expiry qualifies only when none has one
ExpiresSoonest(entries, i) ==
    IF entries[i].value.ttl # NoTtl
    THEN \A j \in DOMAIN entries :
            entries[j].value.ttl # NoTtl
            => entries[i].value.created_at + entries[i].value.ttl
               <= entries[j].value.created_at + entries[j].value.ttl
    ELSE \A j \in DOMAIN entries : entries[j].value.ttl = NoTtl

EvictsOneSoonestExpiry ==
    \E i \in DOMAIN cache.entries :
        /\ ExpiresSoonest(cache.entries, i)
        /\ KeysOf(cache'.entries) =
             (KeysOf(cache.entries) \ {cache.entries[i].key}) \cup {lastOp'.key}
        /\ Len(cache'.entries) = cfg.capacity

\* C7 as stated: TTLCache: a set of a new key into a cache that holds C entries
\* evicts exactly one entry, the one with the smallest expiry among the entries
\* held before the insert (one without expiry only when no held entry has one).
C7_Original ==
    [][ (cfg.kind = "TTL" /\ SetOfNewKeyIntoFullCache)
        => EvictsOneSoonestExpiry ]_vars

\* C7 amended: the same for a TTLCache that has no byte budget.
C7_TTLEvictsSoonestExpiry ==
    [][ (cfg.kind = "TTL" /\ ~HasBudget /\ SetOfNewKeyIntoFullCache)
        => EvictsOneSoonestExpiry ]_vars

\* a TTL set without byte budget has evicted the entry written last, while an
\* entry written before it stays
C7_Witness ==
    /\ cfg.kind = "TTL"
    /\ ~HasBudget
    /\ cfg.capacity = 2
    /\ lastOp.op = "set"
    /\ ~lastOp.ok
    /\ Cardinality(lastOp.removed) = 1
    /\ Len(cache.entries) = 2
    /\ cache.entries[1].value.ttl = NoTtl

GetNeverReturnsExpired ==
    /\ lastOp'.ok => ~is_expired(lastOp'.res)
    /\ (/\ lastOp'.key \in KeysOf(cache.entries)
        /\ is_expired(Lookup(cache.entries, lastOp'.key)))
       => /\ ~lastOp'.ok
          /\ lastOp'.key \notin KeysOf(cache'.entries)

\* C8 as stated: for LRUCache and TTLCache alike, get never returns a value
\* that is expired at the time of the call; when the entry held for the key is
\* expired, get returns absent and the entry is no longer held afterwards.
C8_Original ==
    [][ lastOp'.op = "get" => GetNeverReturnsExpired ]_vars

\* C8 amended: the same for TTLCache and for an LRUCache built with
\* ttl_check=True (its default).
C8_GetNeverReturnsExpired ==
    [][ (lastOp'.op = "get" /\ (cfg.kind = "TTL" \/ cfg.ttl_check))
        => GetNeverReturnsExpired ]_vars

\* a get found the entry of its key expired, answered absent and removed it
C8_Witness ==
    /\ lastOp.op = "get"
    /\ ~lastOp.ok
    /\ lastOp.key \in lastOp.removed
    /\ lastOp.key \notin KeysOf(cache.entries)

\* C9: the number of entries an LRUCache or a TTLCache holds never exceeds its
\* capacity, whatever get/set/delete/clear calls were made.
C9_SizeWithinCapacity ==
    /\ Len(cache.entries) <= cfg.capacity
    /\ Cardinality(KeysOf(cache.entries)) = Len(cache.entries)

\* a set into a full TTLCache made room and left the cache full
C9_Witness ==
    /\ cfg.kind = "TTL"
    /\ lastOp.op = "set"
    /\ lastOp.removed # {}
    /\ Len(cache.entries) = cfg.capacity

----------------------------------------------------------------------------
(* Properties of the store *)

\* what a plain map answers for key k
RefPayload(k) == IF ref[k] = NoValue THEN Default ELSE ref[k].payload

\* the store as the call that led to the next state left it
StNext == [backend |-> backend', cache |-> cache', last_purge |-> last_purge']

\* C1: while no set carried a ttl, the store answers like a plain map, for
\* every cache and capacity: get returns the payload of the latest set not
\* followed by delete or clear, else the default; exists is true exactly in the
\* first case; delete returns true exactly when the key was present.
C1_StoreAnswersLikePlainMap ==
    [][ ~ttlUsed'
        => /\ lastOp'.op = "store_get" => lastOp'.ret = RefPayload(lastOp'.key)
           /\ lastOp'.op = "store_exists"
                => lastOp'.ok = (ref[lastOp'.key] # NoValue)
           /\ lastOp'.op = "store_delete"
                => lastOp'.ok = (ref[lastOp'.key] # NoValue) ]_vars

\* with a capacity of one and two keys set, a get returned a set payload for a
\* key the cache did not hold
C1_Witness ==
    /\ ~ttlUsed
    /\ cfg.capacity = 1
    /\ \A k \in StoreKeys : ref[k] # NoValue
    /\ lastOp.op = "store_get"
    /\ lastOp.key = "k1"
    /\ lastOp.ret = "bbb"
    /\ ref["k2"].payload = "a"

\* C2: a get with include_expired=false of a key whose stored value is expired
\* returns the default and leaves the key in neither backend nor cache, so an
\* exists call made right after it returns false.
C2_GetOfExpiredPurges ==
    [][ (/\ lastOp'.op = "store_get"
         /\ ~lastOp'.inc
         /\ backend[lastOp'.key] # NoValue
         /\ is_expired(backend[lastOp'.key]))
        => /\ lastOp'.ret = Default
           /\ backend'[lastOp'.key] = NoValue
           /\ lastOp'.key \notin KeysOf(cache'.entries)
           /\ ~KVStore_exists(StNext, lastOp'.key).ok ]_vars

\* a plain get resolved its key to an expired value and deleted it
C2_Witness ==
    /\ lastOp.op = "store_get"
    /\ ~lastOp.inc
    /\ lastOp.expired
    /\ lastOp.ret = Default
    /\ backend[lastOp.key] = NoValue

\* C3 as stated: get(k, include_expired=True) returns the payload of an
\* expired key that no delete or clear call removed, also after a plain get or
\* an exists of the expired key answered the default or false.
C3_IncludeExpiredReturnsPayload ==
    [][ (/\ lastOp'.op = "store_get"
         /\ lastOp'.inc
         /\ ref[lastOp'.key] # NoValue
         /\ is_expired(ref[lastOp'.key]))
        => lastOp'.ret = ref[lastOp'.key].payload ]_vars

\* C4 as stated: with a TTLCache(default_ttl=D), a value set without ttl is
\* returned by a get up to D after the set, and a get later than that returns
\* the default.
C4_CacheDefaultTtlExpiresStoreValue ==
    [][ (/\ cfg.kind = "TTL"
         /\ lastOp'.op = "store_get"
         /\ ~lastOp'.inc
         /\ ref[lastOp'.key] # NoValue
         /\ ref[lastOp'.key].ttl = NoTtl)
        => lastOp'.ret =
             IF now > ref[lastOp'.key].created_at + cfg.default_ttl
             THEN Default
             ELSE ref[lastOp'.key].payload ]_vars

\* the keys whose stored value is expired
ExpiredKeys == {k \in Keys : backend[k] # NoValue /\ is_expired(backend[k])}

\* C5: purge_expired deletes from backend and cache exactly the entries that
\* are expired when it is called, returns their number, and every other entry
\* is still returned by get.
C5_PurgeExpiredExact ==
    [][ lastOp'.op = "store_purge_expired"
        => /\ lastOp'.count = Cardinality(ExpiredKeys)
           /\ \A k \in Keys :
                backend'[k] = IF k \in ExpiredKeys THEN NoValue ELSE backend[k]
           /\ KeysOf(cache'.entries) = KeysOf(cache.entries) \ ExpiredKeys
           /\ \A k \in Keys :
                (backend[k] # NoValue /\ k \notin ExpiredKeys)
                => KVStore_get(StNext, k, FALSE).ret = backend[k].payload ]_vars

\* a purge removed an expired entry and left another entry, one with a ttl, in
\* place
C5_Witness ==
    /\ lastOp.op = "store_purge_expired"
    /\ lastOp.count = 1
    /\ \E k \in Keys : backend[k] # NoValue /\ backend[k].ttl # NoTtl

----------------------------------------------------------------------------
(* Properties of transactions *)

\* C10: commit applies the recorded set and delete operations in the order
\* they were recorded: afterwards every key an operation names holds what its
\* last recorded operation says (the value of a set, nothing after a delete, in
\* backend and cache alike), as after the same calls made directly in that
\* order, and a key no operation names keeps its value unless a purge sweep
\* removed it as expired.
C10_CommitAppliesInOrder ==
    [][ (lastOp'.op = "tx_commit" /\ lastOp'.ok)
        => \A k \in Keys :
             LET i == LastOn(tx.operations, k) IN
             /\ (i # 0 /\ tx.operations[i].op = "set")
                => /\ backend'[k] =
                        Value(tx.operations[i].payload, now, tx.operations[i].ttl)
                   /\ KVStore_get(StNext, k, FALSE).ret = tx.operations[i].payload
             /\ (i # 0 /\ tx.operations[i].op = "delete")
                => /\ backend'[k] = NoValue
                   /\ k \notin KeysOf(cache'.entries)
                   /\ KVStore_get(StNext, k, TRUE).ret = Default
             /\ i = 0
                => \/ backend'[k] = backend[k]
                   \/ /\ backend'[k] = NoValue
                      /\ is_expired(backend[k])
                      /\ k \notin KeysOf(cache'.entries) ]_vars

\* a commit of a set followed by a delete of the same key left the key absent
C10_Witness ==
    /\ lastOp.op = "tx_commit"
    /\ lastOp.ok
    /\ tx.committed
    /\ Len(tx.operations) = 2
    /\ tx.operations[1].op = "set"
    /\ tx.operations[2].op = "delete"
    /\ tx.operations[1].key = tx.operations[2].key
    /\ backend[tx.operations[1].key] = NoValue

\* C11: operations recorded in a transaction do not touch the store before
\* commit: a recording step and a rollback step (direct, or by the context
\* manager when the body raised) leave backend and cache as they are; a
\* rollback that succeeds leaves the transaction rolled back, and no step
\* taken with a rolled-back transaction changes backend or cache.
C11_RecordedOperationsHaveNoEffect ==
    [][ /\ lastOp'.op \in {"tx_set", "tx_delete", "tx_rollback", "tx_body_raises"}
           => UNCHANGED <<backend, cache, last_purge>>
        /\ (lastOp'.op \in {"tx_rollback", "tx_body_raises"} /\ lastOp'.ok)
           => tx'.rolled_back
        /\ tx.rolled_back
           => UNCHANGED <<backend, cache, last_purge>> ]_vars

\* a set of k1 and another operation are recorded in an open transaction and
\* the store does not hold k1
C11_Witness ==
    /\ lastOp.op \in {"tx_set", "tx_delete"}
    /\ lastOp.ok
    /\ ~Completed(tx)
    /\ Len(tx.operations) = 2
    /\ tx.operations[1] = SetOp("k1", "a", NoTtl)
    /\ backend["k1"] = NoValue
    /\ "k1" \notin KeysOf(cache.entries)

\* the calls that KVTransaction and its context manager make on a transaction
KVTransactionCalls ==
    {"tx_set", "tx_delete", "tx_commit", "tx_rollback", "tx_exit", "tx_body_raises"}

\* C12: on a finished KVTransaction every set, delete, commit and rollback
\* raises and leaves store and transaction as they are; on a finished
\* Transaction every set, delete and execute raises and does not reach the
\* backend, so the backend is handed the commands at most once.
C12_FinishedTransactionRejectsCalls ==
    [][ /\ (Completed(tx) /\ lastOp'.op \in KVTransactionCalls)
           => /\ lastOp'.error = "ValueError"
              /\ UNCHANGED <<backend, cache, last_purge, tx>>
        /\ (txn.built /\ ~txn.active /\ lastOp'.op \in {"txn_record", "txn_execute"})
           => /\ lastOp'.error = "TransactionError"
              /\ txn' = txn
        /\ (txn.built /\ ~txn.active /\ lastOp'.op = "txn_exit")
           => txn' = txn
        /\ txn'.calls <= 1 ]_vars

\* a set was refused by a committed KVTransaction whose set is in the store,
\* with a Transaction at hand that has executed
C12_Witness ==
    /\ lastOp.op = "tx_set"
    /\ lastOp.error = "ValueError"
    /\ tx.committed
    /\ backend["k1"] # NoValue
    /\ txn.executed
    /\ txn.calls = 1

\* the store after the step holds, key by key, what replaying ops in order
\* leaves: the last operation on a key decides, and a key without operation
\* keeps its value unless a purge sweep removed it as expired
ReplayedInOrder(ops) ==
    \A k \in Keys :
        LET i == LastOn(ops, k) IN
        /\ (i # 0 /\ ops[i].op = "set")
           => backend'[k] = Value(ops[i].payload, now, ops[i].ttl)
        /\ (i # 0 /\ ops[i].op = "delete")
           => /\ backend'[k] = NoValue
              /\ k \notin KeysOf(cache'.entries)
        /\ i = 0
           => \/ backend'[k] = backend[k]
              \/ /\ backend'[k] = NoValue
                 /\ is_expired(backend[k])

C14_CacheAgreesWithBackendAtRest ==
    (\A t \in ThreadIds : threads[t].pc = "idle")
    => \/ ConcKey \notin KeysOf(cache.entries)
       \/ Lookup(cache.entries, ConcKey) = backend[ConcKey]


----------------------------------------------------------------------------
(* Properties of the distributed client *)

\* C15: in async mode the worker sends the updates in the order they were
\* enqueued: a request for an update is sent only when the fan-out of every
\* update enqueued before it has ended, with all its attempts on all nodes, so
\* no node is sent an update after one enqueued later.
C15_UpdatesPropagatedInQueueOrder ==
    [][lastOp'.op = "worker_request" =>
        LET m == lastOp'.count IN
        /\ cfg.async_updates
        /\ m = worker.update.id
        /\ \A i \in 1..(m - 1) : i \in hist.finished \cup hist.dropped
        /\ \A n \in NodeSet : hist.lastReq[n] <= m]_vars

\* the worker sends the second update, after a first one that took a retry,
\* while a third one waits in the queue
C15_Witness ==
    /\ lastOp.op = "worker_request"
    /\ lastOp.count = 2
    /\ cfg.retry_attempts = MaxRetryAttempts
    /\ 1 \in hist.finished
    /\ \E n \in NodeSet : hist.lastReq[n] = 1 /\ n \in nodes_down
    /\ Len(update_queue) = 1
    /\ update_queue[1].id = 3

\* C16: in async mode the queue never holds more than max_queue_size
\* updates; a propagate_* call that finds the queue full returns False and
\* leaves the queue as it was, and the update it was given is never in the
\* queue, never with the worker and never sent to a node.
C16_FullQueueDropsUpdate ==
    [][cfg.async_updates =>
        /\ Len(update_queue') <= cfg.max_queue_size
        /\ (/\ lastOp'.op \in {"dstore_set", "dstore_delete"}
            /\ Len(update_queue) = cfg.max_queue_size)
           => /\ ~lastOp'.ok
              /\ lastOp'.error = "none"
              /\ update_queue' = update_queue
              /\ hist'.calls \in hist'.dropped
        /\ \A d \in hist'.dropped :
              /\ \A i \in 1..Len(update_queue') : update_queue'[i].id # d
              /\ worker'.update.id # d
              /\ \A n \in NodeSet : hist'.lastReq[n] # d]_vars

\* the third update is refused by a queue that holds the first two, and the
\* queue still holds them
C16_Witness ==
    /\ cfg.async_updates
    /\ cfg.max_queue_size = MaxQueueSize
    /\ lastOp.op = "dstore_set"
    /\ ~lastOp.ok
    /\ Len(update_queue) = MaxQueueSize
    /\ hist.dropped = {MaxQueueSize + 1}
    /\ \A i \in 1..MaxQueueSize : update_queue[i].id = i

\* C17: with a client attached, a set or delete of the store does not raise
\* and leaves backend and cache updated, whatever becomes of the propagation:
\* every node unreachable, every node in the down-set, or the queue full.
C17_LocalWriteSurvivesFailedPropagation ==
    [][/\ lastOp'.op = "dstore_set"
          => /\ lastOp'.error = "none"
             /\ backend'[lastOp'.key].payload = lastOp'.ret
             /\ lastOp'.key \in KeysOf(cache'.entries)
             /\ Lookup(cache'.entries, lastOp'.key) = backend'[lastOp'.key]
       /\ lastOp'.op = "dstore_delete"
          => /\ lastOp'.error = "none"
             /\ backend'[lastOp'.key] = NoValue
             /\ lastOp'.key \notin KeysOf(cache'.entries)]_vars

\* a set went through although the queue was full, every node was in the
\* down-set and no node answered
C17_Witness ==
    /\ cfg.async_updates
    /\ lastOp.op = "dstore_set"
    /\ ~lastOp.ok
    /\ Len(update_queue) = cfg.max_queue_size
    /\ nodes_down = NodeSet
    /\ \A n \in NodeSet : peer[n] = "exc"
    /\ backend["k1"].payload = "a"
    /\ Lookup(cache.entries, "k1") = backend["k1"]

\* C18: a node of the down-set that answers again leaves the down-set: with
\* propagations and get_remote calls going on, no node stays for ever both
\* in the down-set and answering 200.
C18_DownPeerRecovers ==
    \A n \in NodeSet : []<>(n \notin nodes_down \/ peer[n] # "200")

\* C19: no request is sent to a node that is in the down-set when the loop
\* over the nodes reaches it, by a propagation or by get_remote; so with the
\* first node in the down-set and the second answering 200 with a value,
\* get_remote returns that value and sends the first node nothing.
C19_NoRequestToDownPeer ==
    [][/\ (lastOp'.op = "worker_request" /\ worker.attempt = 0)
          => lastOp'.node \notin nodes_down
       /\ lastOp'.op \in {"get_remote", "dstore_set", "dstore_delete"}
          => lastOp'.contacted \cap nodes_down = {}
       /\ (/\ lastOp'.op = "get_remote"
           /\ Nodes[1] \in nodes_down
           /\ Nodes[2] \notin nodes_down
           /\ peer[Nodes[2]] = "200")
          => /\ lastOp'.ret = "v"
             /\ lastOp'.contacted = {Nodes[2]}]_vars

\* get_remote returned the second node's value and left out the first, which
\* is in the down-set although it answers again
C19_Witness ==
    /\ lastOp.op = "get_remote"
    /\ lastOp.ret = "v"
    /\ lastOp.contacted = {Nodes[2]}
    /\ nodes_down = {Nodes[1]}
    /\ peer = [n \in NodeSet |-> "200"]

\* C20: the propagation of one update reports success exactly when a node
\* answered 200; a node that used up its attempts does not end the fan-out:
\* every node that is not in the down-set when reached is sent the update.
C20_SuccessIffSomePeerAnswered ==
    [][/\ (lastOp'.op \in {"dstore_set", "dstore_delete"} /\ ~cfg.async_updates)
          => /\ lastOp'.ok = (\E n \in NodeSet \ nodes_down : peer[n] = "200")
             /\ lastOp'.contacted = NodeSet \ nodes_down
       /\ (worker.busy /\ ~worker'.busy)
          => /\ lastOp'.op = "worker_done"
             /\ lastOp'.ok = hist'.got200
             /\ hist'.tried \cup hist'.skipped = NodeSet
             /\ hist'.tried \cap hist'.skipped = {}
       /\ hist'.skipped \ hist.skipped \subseteq nodes_down]_vars

\* a propagation in sync mode succeeded on the second node after the first
\* had used up its attempts
C20_Witness ==
    /\ ~cfg.async_updates
    /\ cfg.retry_attempts = MaxRetryAttempts
    /\ lastOp.op = "dstore_set"
    /\ lastOp.ok
    /\ lastOp.contacted = NodeSet
    /\ nodes_down = {Nodes[1]}
    /\ peer[Nodes[1]] = "exc"
    /\ peer[Nodes[2]] = "200"

\* the positions in self._nodes of the nodes outside the down-set
LiveNodes == {i \in DOMAIN Nodes : Nodes[i] \notin nodes_down}

\* C21: get_remote asks the nodes in configured order, leaving out those in
\* the down-set, up to the first that answers 200 or 404: it returns the
\* value on 200 and not-found on 404, and later nodes are not asked; a node
\* that only fails is passed over, and with no 200 or 404 from any node the
\* result is not-found.
C21_GetRemoteFirstAnswerWins ==
    [][lastOp'.op = "get_remote" =>
        LET answering == {i \in LiveNodes : peer[Nodes[i]] \in {"200", "404"}} IN
        IF answering = {}
        THEN /\ lastOp'.ret = "None"
             /\ lastOp'.contacted = {Nodes[i] : i \in LiveNodes}
        ELSE LET f == CHOOSE i \in answering : \A j \in answering : i <= j IN
             /\ lastOp'.ret = IF peer[Nodes[f]] = "200" THEN "v" ELSE "None"
             /\ lastOp'.contacted = {Nodes[i] : i \in {j \in LiveNodes : j <= f}}]_vars

\* the first node failed and the second answered 404: get_remote asked both
\* and returned not-found, and the first node is now in the down-set
C21_Witness ==
    /\ lastOp.op = "get_remote"
    /\ lastOp.ret = "None"
    /\ lastOp.contacted = NodeSet
    /\ peer[Nodes[1]] = "500"
    /\ peer[Nodes[2]] = "404"
    /\ nodes_down = {Nodes[1]}

----------------------------------------------------------------------------
(* Properties of the DistributedServer *)

\* the request carried the configured token as "Authorization: Bearer <token>",
\* or the server has no token configured
Authorized(h) == cfg.auth_token = NoToken \/ h = Bearer

\* C22: with propagation allowed, an authorized POST /propagate whose source
\* header names the receiving node itself is answered 200 with skipped set,
\* and neither the store nor the queue of the node changes, whatever the body.
C22_LoopGuardSkips ==
    [][(/\ lastOp'.op = "propagate"
        /\ cfg.allow_propagation
        /\ Authorized(lastOp'.auth)
        /\ lastOp'.source = cfg.node_id)
       => /\ lastOp'.status = 200
          /\ lastOp'.skipped
          /\ UNCHANGED <<backend, cache, update_queue>>]_vars

\* a set for a key the store does not hold came back to its own node and was
\* skipped
C22_Witness ==
    /\ lastOp.op = "propagate"
    /\ lastOp.operation = "set"
    /\ lastOp.source = cfg.node_id
    /\ lastOp.skipped
    /\ lastOp.status = 200
    /\ backend["k1"] = NoValue

\* C23: a set, delete or clear that the server applies for POST /propagate
\* puts no update in the queue of the node's own client and makes no
\* propagate_* call, with or without a client attached to the store.
C23_AppliedPropagationIsNotPropagatedAgain ==
    [][(/\ lastOp'.op = "propagate"
        /\ lastOp'.status = 200
        /\ ~lastOp'.skipped)
       => /\ ~lastOp'.propagated
          /\ UNCHANGED update_queue]_vars

\* C25: with a token configured, a request to GET, POST or DELETE /key, to
\* POST /propagate or to GET /stats whose Authorization header is not
\* "Bearer <token>" with the configured token is answered 401 and changes
\* neither the store nor the queue; GET /health is answered 200 under every
\* header.
C25_EveryOtherHeaderIsRefused ==
    [][/\ (/\ cfg.auth_token # NoToken
           /\ lastOp'.op \in {"get_key", "set_key", "delete_key", "propagate", "stats"}
           /\ lastOp'.auth # Bearer)
          => /\ lastOp'.status = 401
             /\ UNCHANGED <<backend, cache, update_queue>>
       /\ lastOp'.op = "health" => lastOp'.status = 200]_vars

\* C26: an authorized GET /key/<key> is answered 200 when the store holds the
\* key unexpired, whoever wrote it (a caller on the node, POST /key or POST
\* /propagate), and 404 when the store does not hold the key, and only then.
C26_GetKeyAnswersEveryPresentKey ==
    [][(lastOp'.op = "get_key" /\ Authorized(lastOp'.auth))
       => LET present == KVStore_exists(St, lastOp'.key).ok
              absent == Resolve(St, lastOp'.key).value = NoValue
          IN  /\ present => lastOp'.status = 200
              /\ absent => lastOp'.status = 404
              /\ lastOp'.status = 404 => ~present]_vars

\* C27: after a set applied for POST /key or POST /propagate, the store holds
\* under the key an envelope with the payload and the ttl of the request, and
\* Store.get of the key returns that payload.
C27_ReceivedSetKeepsPayloadAndTtl ==
    [][(/\ lastOp'.op = "set_key" \/ (lastOp'.op = "propagate" /\ lastOp'.operation = "set")
        /\ lastOp'.status = 200
        /\ ~lastOp'.skipped)
       => LET after == [backend |-> backend', cache |-> cache', last_purge |-> last_purge']
              k == lastOp'.key
          IN  /\ backend'[k].payload = lastOp'.ret
              /\ backend'[k].ttl = lastOp'.ttl
              /\ KVStore_get(after, k, FALSE).ret = lastOp'.ret]_vars

----------------------------------------------------------------------------
(* Properties of the cluster *)

\* no update waits in a queue and no worker holds one
ClusterQuiet ==
    \A n \in ClusterNodes : cluster.queue[n] = <<>> /\ cluster.busy[n] = NoSet

----------------------------------------------------------------------------
(* Properties of the client's shutdown *)

\* C28: once a shutdown call has returned the worker takes no further update
\* from the queue (it may finish the one it holds); the worker comes to its
\* end after shutdown was called; the join of a shutdown call lasts at most
\* its timeout and the call returns; a further shutdown call changes neither
\* the flag, the worker nor the queue, and raises nothing.
C28_ShutdownStopsWorker ==
    /\ [][lifecycle.shutdowns >= 1 => lastOp'.op # "dequeue"]_vars
    /\ [][lastOp'.op = "shutdown_return"
            => lastOp'.count <= JoinTimeout /\ lastOp'.error = "none"]_vars
    /\ [][(lifecycle.shutdowns >= 1 /\ lastOp'.op \in {"shutdown", "shutdown_return"})
            => /\ lifecycle'.running = lifecycle.running
               /\ lifecycle'.pc = lifecycle.pc
               /\ UNCHANGED update_queue
               /\ lastOp'.error = "none"]_vars
    /\ (~lifecycle.running) ~> (lifecycle.pc \in {"exited", "none"})
    /\ (lifecycle.caller = "joining") ~> (lifecycle.caller = "idle")

\* the second shutdown call has returned, the first after the whole timeout
\* of its join; the worker has ended and left updates in the queue
C28_Witness ==
    /\ lastOp.op = "shutdown_return"
    /\ lifecycle.shutdowns = 2
    /\ lifecycle.pc = "exited"
    /\ update_queue # <<>>

----------------------------------------------------------------------------
(* Properties of Value *)

\* C29: a stored value created at c with ttl T has expiry c + T, is not
\* expired at any time up to c + T and is expired at every later time, so an
\* expired value stays expired; a value without ttl has no expiry and is not
\* expired at any time.
C29_ExpiredAfterCreationPlusTtl ==
    /\ [](\A k \in Keys :
            LET v == backend[k] IN
            v # NoValue =>
                IF v.ttl = NoTtl
                THEN expiry(v) = NoTtl /\ ~is_expired(v)
                ELSE /\ expiry(v) = v.created_at + v.ttl
                     /\ now <= v.created_at + v.ttl => ~is_expired(v)
                     /\ now > v.created_at + v.ttl => is_expired(v))
    /\ [][\A k \in Keys :
            (backend[k] # NoValue /\ backend'[k] = backend[k] /\ is_expired(backend[k]))
                => is_expired(backend[k])']_vars

\* the store holds a value with ttl 1 at its expiry time, not yet expired,
\* and another one past it, expired
C29_Witness ==
    \E k1 \in Keys, k2 \in Keys :
        /\ backend[k1] # NoValue /\ backend[k1].ttl = 1
        /\ now = backend[k1].created_at + 1
        /\ ~is_expired(backend[k1])
        /\ backend[k2] # NoValue /\ backend[k2].ttl = 1
        /\ now > backend[k2].created_at + 1
        /\ is_expired(backend[k2])

\* C30: from_dict of the class of a value, given the value's to_dict, builds
\* a value with the same payload, created_at, ttl and metadata, for each of
\* the six classes; from_dict of any other class raises.
C30_FromDictInvertsToDict ==
    [][lastOp'.op = "from_dict" =>
        IF lastOp'.node = codec.v.type
        THEN /\ ~codec'.raised
             /\ codec'.out.type = codec.v.type
             /\ codec'.out.payload = codec.v.payload
             /\ codec'.out.created_at = codec.v.created_at
             /\ codec'.out.ttl = codec.v.ttl
             /\ codec'.out.metadata = codec.v.metadata
        ELSE codec'.raised]_vars

\* a PickleValue with ttl and metadata went through to_dict, whose value is
\* the hex text of the pickle, and came back from from_dict at a later time
C30_Witness ==
    /\ lastOp.op = "from_dict"
    /\ codec.phase = "back"
    /\ codec.v.type = "PickleValue"
    /\ codec.v.payload = <<0, 255>>
    /\ codec.d.value = <<"8", "0", "0", "4", "9", "5", "0", "7", "0", "0", "0", "0",
                         "0", "0", "0", "0", "0", "0", "0", "0", "0", "0",
                         "4", "b", "0", "0", "4", "b", "f", "f", "8", "6", "9", "4",
                         "2", "e">>
    /\ ~codec.raised
    /\ codec.out.payload = <<0, 255>>
    /\ codec.v.ttl = 1
    /\ codec.v.metadata # NoMetadata
    /\ now > codec.v.created_at

----------------------------------------------------------------------------
(* Properties of Key *)

\* the string the key stands for: namespace, colon and normalized value, or
\* the normalized value alone
CanonicalString(k) ==
    IF k.namespace.given /\ k.namespace.chars # <<>>
    THEN k.namespace.chars \o <<":">> \o Key_normalize_value(k.value)
    ELSE Key_normalize_value(k.value)

RawValueHasColon(k) ==
    \/ k.value.kind = "str" /\ HasColon(k.value.chars)
    \/ k.value.kind = "bytes" /\ \E i \in DOMAIN k.value.bytes : k.value.bytes[i] = 58

\* C31: two keys are equal exactly when their canonical strings are equal,
\* equal keys have equal hashes, and Key.from_string(str(k)) equals k for
\* every key whose raw value contains no colon.
C31_EqualByStringAndFromStringInvertsStr ==
    [][/\ lastOp'.op = "eq" =>
            /\ lastOp'.ok <=> CanonicalString(codec'.k) = CanonicalString(codec'.other)
            /\ lastOp'.ok => lastOp'.count = lastOp'.status
       /\ lastOp'.op = "from_string" /\ ~RawValueHasColon(codec'.k) =>
            Key_eq(codec'.back, codec'.k)]_vars

\* the parts of C31 about equality and hashes alone
C31_EqualByString ==
    [][lastOp'.op = "eq" =>
            /\ lastOp'.ok <=> CanonicalString(codec'.k) = CanonicalString(codec'.other)
            /\ lastOp'.ok => lastOp'.count = lastOp'.status]_vars

----------------------------------------------------------------------------
(* Properties of the client's retries *)

\* the answer after which a call sends the node no further request
Ends200(read, answer) == answer = "200"

Ends200Or404OfRead(read, answer) == answer = "200" \/ (read /\ answer = "404")

NodeIndex(n) == CHOOSE i \in DOMAIN Nodes : Nodes[i] = n

\* a call run in its caller's thread sent the requests T: no node in the
\* down-set was sent one; a node was sent at most retry_attempts, none after
\* an answer that ends them and all of them without one; it joined the
\* down-set exactly when all of them failed
CallKeepsRetryRule(T, read, before, after, Ends(_, _)) ==
    \A n \in NodeSet :
        LET I == {i \in DOMAIN T : T[i].node = n}
            allFailed == /\ Cardinality(I) = cfg.retry_attempts
                         /\ \A i \in I : ~Ends(read, T[i].answer)
        IN  /\ Cardinality(I) <= cfg.retry_attempts
            /\ n \in before => I = {}
            /\ ~read /\ n \notin before => I # {}
            /\ \A i \in I : Ends(read, T[i].answer) => \A j \in I : j <= i
            /\ I # {} /\ (\A i \in I : ~Ends(read, T[i].answer)) => allFailed
            /\ (n \in after /\ n \notin before) <=> allFailed

\* the worker's request to a node: the node was not in the down-set when the
\* worker came to it; the request is within the attempts; after an answer
\* that ends them, or after the last failure, the worker leaves the node;
\* after another failure it stays for the next attempt; the node joins the
\* down-set exactly at the last failure
RequestKeepsRetryRule(Ends(_, _)) ==
    LET n == lastOp'.node
        a == worker.attempt
        ended == Ends(FALSE, peer[n])
        left == ~worker'.busy \/ (worker'.node > NodeIndex(n) /\ worker'.attempt = 0)
    IN  /\ a < cfg.retry_attempts
        /\ a = 0 => n \notin nodes_down
        /\ a > 0 => n = Nodes[worker.node]
        /\ ended => left /\ nodes_down' \subseteq nodes_down
        /\ ~ended /\ a + 1 < cfg.retry_attempts =>
              /\ worker'.busy /\ worker'.node = NodeIndex(n) /\ worker'.attempt = a + 1
              /\ nodes_down' = nodes_down
        /\ ~ended /\ a + 1 = cfg.retry_attempts =>
              left /\ nodes_down' = nodes_down \cup {n}

RetryRule(Ends(_, _)) ==
    /\ lastOp'.op = "worker_request" => RequestKeepsRetryRule(Ends)
    /\ lastOp'.op \in {"dstore_set", "dstore_delete"} /\ ~cfg.async_updates =>
          CallKeepsRetryRule(lastOp'.requests, FALSE, nodes_down, nodes_down', Ends)
    /\ lastOp'.op = "get_remote" =>
          CallKeepsRetryRule(lastOp'.requests, TRUE, nodes_down, nodes_down', Ends)
    /\ \/ lastOp'.op \notin {"worker_request", "dstore_set", "dstore_delete", "get_remote"}
       \/ lastOp'.op \in {"dstore_set", "dstore_delete"} /\ cfg.async_updates
          => nodes_down' \subseteq nodes_down

\* C32 as stated: for each update or get_remote and each peer not in the
\* down-set, the client sends the peer requests until the first 200 or until
\* retry_attempts requests have failed, never more, and the peer joins the
\* down-set exactly when all retry_attempts requests of the call failed.
C32_RetriesUntil200OrExhausted == [][RetryRule(Ends200)]_vars

\* C32 amended: the same, where for get_remote a 404 ends the requests like a
\* 200 does and is no failure.
C32_RetriesUntilAnswerOrExhausted == [][RetryRule(Ends200Or404OfRead)]_vars

\* a get_remote whose first node failed every attempt and joined the
\* down-set, and whose second node answered
C32_Witness ==
    /\ lastOp.op = "get_remote"
    /\ cfg.retry_attempts = MaxRetryAttempts
    /\ Len(lastOp.requests) = MaxRetryAttempts + 1
    /\ lastOp.requests[MaxRetryAttempts + 1].node = Nodes[2]
    /\ Nodes[1] \in nodes_down
    /\ lastOp.ret = "v"

\* the worker's last attempt on a node has failed
C32_WitnessWorker ==
    /\ lastOp.op = "worker_request"
    /\ cfg.retry_attempts = MaxRetryAttempts
    /\ lastOp.node \in nodes_down
    /\ worker.busy
    /\ worker.attempt = 0

----------------------------------------------------------------------------
(* Properties of the store with a client attached *)

\* thread t leaves the set, delete or clear call it is in
CallEnds(t) == threads[t].call # "none" /\ threads'[t].call = "none"

\* C33: with a client attached, every set, delete and clear call of the store
\* hands exactly one propagation with the call's operation and key to the
\* client, and only after the backend and the cache have been written; so do
\* the deletes a read of an expired key and purge_expired issue, and the
\* deletes of keys that are not there.  A call ends with the step that puts
\* its update into the queue, no other step puts one in, and both writes
\* are done by then.
C33_EveryWriteHandsOnePropagation ==
    [][/\ \A t \in ThreadIds : CallEnds(t) =>
             /\ Len(update_queue') = Len(update_queue) + 1
             /\ update_queue' = Append(update_queue, update_queue'[Len(update_queue')])
             /\ update_queue'[Len(update_queue')].op = threads[t].call
             /\ update_queue'[Len(update_queue')].by = t
             /\ threads[t].call # "clear" =>
                   update_queue'[Len(update_queue')].key = threads[t].key
             /\ threads[t].done = {"backend", "cache"}
       /\ Len(update_queue') > Len(update_queue) =>
             /\ Len(update_queue') = Len(update_queue) + 1
             /\ CallEnds(update_queue'[Len(update_queue')].by)]_vars

\* purge_expired has deleted an expired key and handed the delete on, after
\* the set of the key
C33_Witness ==
    /\ lastOp.op = "att_propagate"
    /\ lastOp.operation = "delete"
    /\ threads[lastOp.node].op = "purge_expired"
    /\ Len(update_queue) = 2
    /\ update_queue[1].op = "set"
    /\ update_queue[2] = [op |-> "delete", key |-> "k2", payload |-> "", by |-> "t2"]
    /\ backend["k2"] = NoValue

\* a delete of a key that was not there has been handed on
C33_WitnessAbsent ==
    /\ lastOp.op = "att_propagate"
    /\ lastOp.operation = "delete"
    /\ ~threads[lastOp.node].result
    /\ update_queue # <<>>

\* a read has deleted the expired key and handed the delete on
C33_WitnessRead ==
    /\ lastOp.op = "att_propagate"
    /\ lastOp.operation = "delete"
    /\ lastOp.node = "t2"
    /\ hist.calls = 2
    /\ update_queue # <<>>
    /\ update_queue[Len(update_queue)] = [op |-> "delete", key |-> "k2", payload |-> "", by |-> "t2"]

AtRest == \A t \in ThreadIds : threads[t].pc = "idle"

\* C40: when two threads set the same key concurrently with a client attached,
\* the two updates are enqueued in the order in which they were written to
\* the backend, so once both are delivered the peer holds for the key the
\* value the origin's backend holds.
C40_PeerEndsWithOriginValue ==
    AtRest /\ update_queue = <<>> /\ hist.sets_only /\ backend["k1"] # NoValue
        => hist.peer_store["k1"] = backend["k1"].payload

----------------------------------------------------------------------------
(* Properties of the TTL cache's byte budget and sweep *)

\* the entries the size limit took from the cache as it was after the insert
EvictedForBudget(after, final) ==
    {i \in DOMAIN after.entries : after.entries[i].key \notin KeysOf(final.entries)}

\* C34: in a TTLCache with byte budget S, after every set the byte estimate
\* is at or under S, and the entries removed to get there are taken in
\* ascending order of expiry, those without expiry last: no entry that stays
\* expires sooner than one that was removed.
C34_SetKeepsBudgetEvictingByExpiry ==
    [][lastOp'.op = "set" =>
        \A after \in {TTLCache_insert(cache, lastOp'.key, lastOp'.res)} :
        \A gone \in {EvictedForBudget(after, cache')} :
            /\ cache'.estimated_size_bytes <= cfg.max_size_bytes
            /\ \A i \in DOMAIN after.entries :
                  i \notin gone =>
                     /\ after.entries[i] \in {cache'.entries[j] : j \in DOMAIN cache'.entries}
                     /\ \A g \in gone :
                           SortKey(after.entries[g]) <= SortKey(after.entries[i])
            /\ gone # {} => after.estimated_size_bytes > cfg.max_size_bytes]_vars

\* a set has pushed the estimate over the budget: the entry held before was
\* taken out and the new one, which has no expiry, stays
C34_Witness ==
    /\ lastOp.op = "set"
    /\ HasBudget
    /\ Len(cache.entries) = 1
    /\ lastOp.removed # {}
    /\ lastOp.key \in KeysOf(cache.entries)
    /\ expiry(lastOp.res) = NoTtl
    /\ cache.estimated_size_bytes = TTLCache_estimate_item_size(lastOp.key, lastOp.res)

\* C35: in a TTLCache with a byte budget, after any sequence of set, get,
\* delete and clear the byte estimate is the sum of the size estimates of the
\* entries held, and 0 when the cache is empty.
C35_EstimateIsSumOfHeld ==
    /\ cache.estimated_size_bytes = SumSizes(cache.entries)
    /\ cache.entries = <<>> => cache.estimated_size_bytes = 0

\* a sweep has removed an expired entry and left another
C35_Witness ==
    /\ lastOp.op = "get"
    /\ lastOp.removed # {}
    /\ lastOp.key \notin lastOp.removed
    /\ cache.last_cleanup = now
    /\ now > 0
    /\ Len(cache.entries) = 1
    /\ cache.estimated_size_bytes > 0

\* C36: a get at time t with t - lastCleanup >= I first removes every expired
\* entry and sets lastCleanup to t, so right after it no held entry is
\* expired; a get with t - lastCleanup < I removes no entry other than the
\* requested key when that one is expired.
C36_GetSweepsWhenDue ==
    [][lastOp'.op = "get" /\ cfg.kind = "TTL" =>
        LET k == lastOp'.key
            held == KeysOf(cache.entries)
            expired == {cache.entries[i].key :
                           i \in {j \in DOMAIN cache.entries :
                                     is_expired(cache.entries[j].value)}}
            gone == held \ KeysOf(cache'.entries)
        IN  IF now - cache.last_cleanup >= cfg.cleanup_interval
            THEN /\ gone = expired
                 /\ cache'.last_cleanup = now
                 /\ \A i \in DOMAIN cache'.entries : ~is_expired(cache'.entries[i].value)
            ELSE /\ gone = expired \cap {k}
                 /\ cache'.last_cleanup = cache.last_cleanup]_vars

\* a due get has swept an expired entry other than the one asked for
C36_Witness ==
    /\ lastOp.op = "get"
    /\ cfg.kind = "TTL"
    /\ cfg.cleanup_interval = 1
    /\ cache.last_cleanup = now
    /\ lastOp.removed # {}
    /\ lastOp.key \notin lastOp.removed
    /\ lastOp.ok

\* a get that was not due has removed the expired key asked for and left
\* another expired entry
C36_WitnessNotDue ==
    /\ lastOp.op = "get"
    /\ cfg.kind = "TTL"
    /\ cache.last_cleanup < now
    /\ lastOp.removed = {lastOp.key}
    /\ \E i \in DOMAIN cache.entries : is_expired(cache.entries[i].value)

----------------------------------------------------------------------------
(* Properties of the worker and of wait_for_queue_empty *)

\* every update put into the queue has been processed: the queue is empty
\* and the worker holds no update
QueueDrained == update_queue = <<>> /\ lifecycle.pc # "process"

\* C37: wait_for_queue_empty(timeout) returns True when every queued update
\* has been processed before the timeout is over, and at once in sync mode;
\* it returns False only when the timeout is over first.
C37_WaitReturnsTrueOnceDrained ==
    [][lastOp'.op = "wait_for_queue_empty" =>
          /\ ~cfg.async_updates => lastOp'.ok
          /\ QueueDrained => lastOp'.ok
          /\ ~lastOp'.ok => lastOp'.ttl # NoTtl /\ lastOp'.count >= lastOp'.ttl]_vars

\* the part of C37 on sync mode
C37_TrueInSyncMode ==
    [][lastOp'.op = "wait_for_queue_empty" /\ ~cfg.async_updates => lastOp'.ok]_vars

InQueue(i) == \E j \in DOMAIN update_queue : update_queue[j].id = i

\* C38: in async mode, as long as shutdown is not called, every update
\* accepted into the queue is in the end dequeued by the worker, also after
\* the processing of an earlier update raised an error, and a fan-out that
\* runs attempts every node that is not in the down-set.
C38_AcceptedUpdateIsProcessed ==
    /\ \A i \in 1..MaxUpdates :
          InQueue(i) ~> ((lastOp.op = "dequeue" /\ lastOp.count = i) \/ ~lifecycle.running)
    /\ [][lastOp'.op = "fan_out" => lastOp'.contacted = NodeSet \ nodes_down]_vars

\* the worker has taken the last update although the processing of the one
\* before raised an error
C38_Witness ==
    /\ lastOp.op = "dequeue"
    /\ lastOp.count = MaxUpdates
    /\ lifecycle.running
    /\ lifecycle.shutdowns = 0
    /\ lifecycle.raised
    /\ nodes_down # {}
----------------------------------------------------------------------------
(* Properties of the client when every node is in the down-set *)

AllDown == NodeSet \subseteq nodes_down

\* the worker is about to start the fan-out of the update it took
WorkerStarts == worker.busy /\ worker.node = 1 /\ worker.attempt = 0

\* C39: when every configured node is in the down-set, a propagation that
\* starts (the fan-out of a propagate_* call in sync mode, the worker's fan-out
\* of an update in async mode) and a get_remote that starts send no request,
\* the propagation ends without success and get_remote returns None, and no
\* counter of failures changes; the down-set stays as it is.
C39_NoRequestWhenAllDown ==
    [][AllDown =>
          /\ lastOp'.op \in {"dstore_set", "dstore_delete"} /\ ~cfg.async_updates
                => /\ lastOp'.requests = <<>>
                   /\ lastOp'.contacted = {}
                   /\ ~lastOp'.ok
                   /\ lastOp'.failed = 0
                   /\ nodes_down' = nodes_down
          /\ lastOp'.op = "get_remote"
                => /\ lastOp'.requests = <<>>
                   /\ lastOp'.contacted = {}
                   /\ lastOp'.ret = "None"
                   /\ lastOp'.failed = 0
                   /\ nodes_down' = nodes_down
          /\ WorkerStarts /\ lastOp'.op \in {"worker_request", "worker_done"}
                => /\ lastOp'.op = "worker_done"
                   /\ ~lastOp'.ok
                   /\ lastOp'.failed = 0
                   /\ nodes_down' = nodes_down]_vars

\* a set of the store in sync mode found every node in the down-set
C39_Witness ==
    /\ ~cfg.async_updates
    /\ AllDown
    /\ lastOp.op = "dstore_set"
    /\ lastOp.requests = <<>>
    /\ ~lastOp.ok

\* get_remote found every node in the down-set
C39_WitnessRead ==
    AllDown /\ lastOp.op = "get_remote" /\ lastOp.requests = <<>> /\ lastOp.ret = "None"

\* the worker found every node in the down-set for the update it took
C39_WitnessWorker ==
    /\ AllDown
    /\ lastOp.op = "worker_done"
    /\ ~lastOp.ok
    /\ hist.tried = {}
    /\ hist.skipped = NodeSet
====
